---------------------------- MODULE Spec2Model ----------------------------
(***************************************************************************)
(* Model of three subsystems of the confidential-compute worker node:      *)
(*   - the worker side of the worker-host protocol (runtime/src/protocol.rs)*)
(*   - the runtime client manager (runtime/client/src/manager.rs)          *)
(*   - the contract worker thread (compute/src/worker.rs)                  *)
(* Each subsystem has its own next-state relation over the shared state;   *)
(* the variables of the other subsystems stay at their initial values.     *)
(***************************************************************************)
EXTENDS Integers, Sequences, FiniteSets, TLC

VARIABLES
    \* ---- worker-host protocol (struct Protocol) ----
    sgx,                   \* cfg(target_env = "sgx") of the build
    stream_ok,             \* the stream to the worker host is open
    reader_running,        \* Protocol::start is inside its 'recv loop
    last_request_id,       \* AtomicUsize
    pending_out_requests,  \* HashMap<u64, Sender<Body>>: id -> call owning the channel
    rak_avr,               \* RAK's bound AVR (rak.avr())
    dispatcher_queue,      \* requests queued with Dispatcher::queue_request
    wire,                  \* frames written to the stream by encode_message
    pc,                    \* position of every make_request call
    req_id,                \* the id each make_request call allocated
    chan,                  \* the bounded(1) response channel of every call
    ret,                   \* what every make_request call returned
    allocated,             \* history: the ids in the order fetch_add handed them out
    last_handled,          \* history: what the reader did with the last frame
    n_in,                  \* number of frames the host has sent so far
    \* ---- runtime client manager (struct Inner) ----
    leader,                \* RwLock<Option<Arc<Leader>>>: the installed client
    future_leader,         \* value of the shared one-shot, once fired
    leader_notify,         \* Mutex<Option<oneshot::Sender>>: the Sender is still there
    client_node,           \* the node of every Leader object created so far
    client_shutdown,       \* number of shutdown() calls on every client
    follower,              \* the committee follower: its position, its last result and
                           \* the leader named by a committee the filters dropped
    exited,                \* std::process::exit was called
    n_committees,          \* number of committees the scheduler has published
    mcall,                 \* every RuntimeClientManager::call: position and history
    \* ---- contract worker (struct Worker / WorkerInner) ----
    command_queue,         \* the mpsc channel of Command values
    n_commands,            \* number of commands sent so far
    results,               \* what each command's response sender received
    storage,               \* the shared StorageBackend: its local and durable values
    commit_log,            \* history: every BatchStorageBackend::commit invocation
    handled,               \* history: the commands in the order the worker took them
    receivers,             \* whether the oneshot::Receiver of each command still exists
    worker_running,        \* the thread of WorkerInner::work has not panicked
    \* ---- make_request contexts, the byte stream (framing and codec) ----
    cancelled,             \* the Context passed to each make_request call was cancelled
    rd,                    \* the reader of Protocol::start: bytes consumed, last decode
    codec,                 \* one message taken through encode_message and decode_message
    outgoing_mutex,        \* Mutex<()>: the thread holding it, if any
    writer,                \* every thread inside encode_message: position and BufWriter
    stream_out,            \* the chunks written to the stream, in the order of the writes
    lock_order,            \* history: the frames in the order their senders took the mutex
    \* ---- storage backends (DummyStorageBackend, BatchStorageBackend) ----
    dummy_storage,         \* DummyStorageBackendInner::storage: HashMap<H256, Vec<u8>>
    batch_storage,         \* a BatchStorageBackend: its buffer, the commits of that buffer
    inserted,              \* history: the values whose insert into the backend completed
    store_ret,             \* the last storage operation and what it returned
    \* ---- typed host requests (HostReadSyncer, ProtocolUntrustedLocalStorage) ----
    typed,                 \* the typed call in progress: method, reply, what it returned
    host_requests,         \* history: the request bodies passed to make_request
    \* ---- PrometheusMetricCollector ----
    metrics,               \* RwLock<HashMap<String, PrometheusMetric>>: lock holders, map
    registry,              \* the metrics registered with prometheus::register, their values
    thr,                   \* every thread that calls collect: position, metric, calls made
    requested,             \* history: per name, the sum of the values passed to collect
    \* ---- conversions and configuration (common/src/node.rs, compute/src/main.rs) ----
    conv,                  \* a Node, the api::Node made from it, the Node made from that
    config,                \* the command line given to main and the configuration built
    \* ---- SelectAll (common/src/futures/select_all.rs) ----
    select_all,            \* SelectAll::inner: the streams of the set, the ready queue
    pushed,                \* history: every stream pushed, with all it has to yield
    yielded,               \* history: the items poll returned, with their streams
    \* ---- Header (consensus/base/src/header.rs) ----
    headers,               \* the block headers built so far
    parent_check           \* the last call of is_parent_of: self, child, result

protoVars == <<sgx, stream_ok, reader_running, last_request_id, pending_out_requests,
               rak_avr, dispatcher_queue, wire, pc, req_id, chan, ret, allocated,
               last_handled, n_in>>

mgrVars == <<leader, future_leader, leader_notify, client_node, client_shutdown,
             follower, exited, n_committees, mcall>>

workerVars == <<command_queue, n_commands, results, storage, commit_log, handled,
                receivers, worker_running>>

frameVars == <<rd, codec>>

wireVars == <<outgoing_mutex, writer, stream_out, lock_order>>

extVars == <<cancelled, frameVars, wireVars>>

storeVars == <<dummy_storage, batch_storage, inserted, store_ret>>

typedVars == <<typed, host_requests>>

promVars == <<metrics, registry, thr, requested>>

selVars == <<select_all, pushed, yielded>>

hdrVars == <<headers, parent_check>>

libVars == <<storeVars, typedVars, promVars, conv, config, selVars, hdrVars>>

vars == <<protoVars, mgrVars, workerVars, extVars, libVars>>

----------------------------------------------------------------------------
\* Bounds of the model.

\* Number of make_request calls (threads) in the worker-host protocol model.
NumCalls == 3
\* Size of the id space of last_request_id (a scaled-down usize): fetch_add wraps.
IdModulus == 2
\* Number of Response and KeepAlive frames the host sends to the reader.
MaxInbound == 2
\* Number of Request frames the host sends to the reader.
MaxRequests == 3
\* The ids the host gives its requests are 0..HostIdMax.
HostIdMax == 1
\* Number of concurrent RuntimeClientManager::call invocations.
NumMCalls == 2
\* Number of committees the scheduler publishes.
MaxCommittees == 3
\* Number of commands sent to the worker thread.
MaxCommands == 2

\* Number of frames the host writes to the stream the reader decodes.
MaxFrames == 3
\* Number of threads that call encode_message concurrently.
NumWriters == 2
\* Number of committees the scheduler yields to a manager that sees those of all
\* runtimes and kinds.
MaxWatched == 2
\* Number of block headers built, and the highest round among them.
MaxHeaders == 3
MaxRound == 2
\* Number of streams pushed into one SelectAll.
MaxStreams == 2
\* Number of threads that call collect concurrently.
NumThreads == 2
\* Number of collect calls of each thread.
MaxCollects == 2
\* Number of typed host requests made one after the other.
MaxTypedCalls == 2
\* Number of times one BatchStorageBackend is committed.
MaxCommits == 2
\* Number of frames written to the stream by all threads together.
MaxWrites == 3

MCalls == 1..NumMCalls

Calls == 1..NumCalls
Ids == 0..(IdModulus - 1)

NoId == 0 - 1
NoCall == 1 - 1
NoMsg == [id |-> NoId, message_type |-> "None", body |-> [kind |-> "None", arg |-> ""]]
NoAvr == "none"

----------------------------------------------------------------------------
\* types.rs: MessageType, Message, Body

Body(kind, arg) == [kind |-> kind, arg |-> arg]

Message(id, message_type, body) == [id |-> id, message_type |-> message_type, body |-> body]

ErrorBody(message) == Body("Error", message)

\* Display strings of ProtocolError
InvalidResponse == "invalid response"
MethodNotSupported == "method not supported"
AttestationRequired == "attestation required"

\* The request bodies the host may send to the worker.
RuntimeRequestKinds == {"WorkerRPCCallRequest", "WorkerLocalRPCCallRequest",
                        "WorkerCheckTxBatchRequest", "WorkerExecuteTxBatchRequest"}

RequestKinds == {"WorkerInfoRequest", "WorkerPingRequest", "WorkerShutdownRequest",
                 "WorkerAbortRequest", "WorkerCapabilityTEERakInitRequest",
                 "WorkerCapabilityTEERakReportRequest", "WorkerCapabilityTEERakAvrRequest",
                 "HostRPCCallRequest"} \cup RuntimeRequestKinds

\* AVRs the host may pass in WorkerCapabilityTEERakAvrRequest: one RAK::set_avr
\* accepts and one it rejects.
Avrs == {"avr_valid", "avr_invalid"}

\* The response bodies the host may send.
ResponseBodies == {Body("HostLocalStorageGetResponse", "v"), ErrorBody("host error")}

ResponseFrames == {Message(i, "Response", b) : i \in Ids, b \in ResponseBodies}

HostIds == 0..HostIdMax

RequestFrames ==
    {Message(i, "Request", Body(k, "")) :
        i \in HostIds, k \in RequestKinds \ {"WorkerCapabilityTEERakAvrRequest"}}
    \cup {Message(i, "Request", Body("WorkerCapabilityTEERakAvrRequest", a)) :
            i \in HostIds, a \in Avrs}

KeepAliveFrames == {Message(0, "KeepAlive", Body("Empty", ""))}

----------------------------------------------------------------------------
\* Helpers on the pending map and the channels.

\* Mutant of MapInsert: the channel is not in the map when the frame is written.
MapInsert_late(map, key, value) == map

\* pending_requests.insert(id, tx)
MapInsert(map, key, value) ==
    [x \in DOMAIN map \cup {key} |-> IF x = key THEN value ELSE map[x]]

\* Mutant of MapRemove: the entry is looked up but left in the map.
MapRemoveKeeps(map, key) == map

\* pending_requests.remove(&id): the map without the key
MapRemove(map, key) == [x \in DOMAIN map \ {key} |-> map[x]]

\* The Sender of call k's channel exists as long as the map holds it.
SenderAlive(k) == \E i \in DOMAIN pending_out_requests : pending_out_requests[i] = k

\* The Receiver of call k's channel lives until make_request returns.
ReceiverAlive(k) == pc[k] \in {"registered", "waiting"}

----------------------------------------------------------------------------
\* Protocol::new

ProtocolInit ==
    /\ sgx \in BOOLEAN
    /\ stream_ok = TRUE
    /\ reader_running = TRUE
    /\ last_request_id = 0
    /\ pending_out_requests = << >>
    /\ rak_avr = NoAvr
    /\ dispatcher_queue = << >>
    /\ wire = << >>
    /\ pc = [k \in Calls |-> "start"]
    /\ req_id = [k \in Calls |-> NoId]
    /\ chan = [k \in Calls |-> NoMsg]
    /\ ret = [k \in Calls |-> [tag |-> "none", body |-> NoMsg.body, from |-> NoId]]
    /\ allocated = << >>
    /\ last_handled = [frame |-> NoMsg, outcome |-> "none", to |-> NoCall]
    /\ n_in = 0

----------------------------------------------------------------------------
\* Protocol::make_request, one action per step between which other threads run.

\* self.last_request_id.fetch_add(1, Ordering::SeqCst) as u64
fetch_add(value) == (value + 1) % IdModulus

\* The request body a call sends.
RequestBodyOf(k) == Body("HostLocalStorageGetRequest", "key")

\* The calls are interchangeable threads: they are numbered in the order in which
\* they reach fetch_add.
make_request_alloc(k) ==
    /\ pc[k] = "start"
    /\ \A j \in Calls : j < k => pc[j] # "start"
    /\ req_id' = [req_id EXCEPT ![k] = last_request_id]
    /\ last_request_id' = fetch_add(last_request_id)
    /\ allocated' = Append(allocated, last_request_id)
    /\ pc' = [pc EXCEPT ![k] = "alloc"]
    /\ UNCHANGED <<sgx, stream_ok, reader_running, pending_out_requests, rak_avr,
                   dispatcher_queue, wire, chan, ret, last_handled, n_in>>

\* let (tx, rx) = channel::bounded(1); pending_requests.insert(id, tx)
make_request_register(k) ==
    /\ pc[k] = "alloc"
    /\ pending_out_requests' = MapInsert(pending_out_requests, req_id[k], k)
    /\ pc' = [pc EXCEPT ![k] = "registered"]
    /\ UNCHANGED <<sgx, stream_ok, reader_running, last_request_id, rak_avr,
                   dispatcher_queue, wire, req_id, chan, ret, allocated, last_handled,
                   n_in>>

\* self.encode_message(message)?  On a closed stream the BufWriter either reports
\* the failed write or loses it when it is dropped.
make_request_send(k) ==
    /\ pc[k] = "registered"
    /\ \E write_ok \in (IF stream_ok THEN {TRUE} ELSE BOOLEAN) :
          /\ wire' = IF stream_ok
                        THEN Append(wire, Message(req_id[k], "Request", RequestBodyOf(k)))
                        ELSE wire
          /\ pc' = [pc EXCEPT ![k] = IF write_ok THEN "waiting" ELSE "returned"]
          /\ ret' = IF write_ok THEN ret
                     ELSE [ret EXCEPT ![k] = [tag |-> "err_io", body |-> NoMsg.body,
                                              from |-> NoId]]
    /\ UNCHANGED <<sgx, stream_ok, reader_running, last_request_id,
                   pending_out_requests, rak_avr, dispatcher_queue, req_id, chan,
                   allocated, last_handled, n_in>>

\* Mutant of RecvResult: every delivered body is returned as Ok(body).
RecvResult_always_ok(k) ==
    IF chan[k] = NoMsg
        THEN [tag |-> "err_recv", body |-> NoMsg.body, from |-> NoId]
        ELSE [tag |-> "ok", body |-> chan[k].body, from |-> chan[k].id]

\* match rx.recv()? { Body::Error { message } => Err(..), body => Ok(body) }
RecvResult(k) ==
    IF chan[k] = NoMsg
        THEN [tag |-> "err_recv", body |-> NoMsg.body, from |-> NoId]
        ELSE [tag |-> IF chan[k].body.kind = "Error" THEN "err_body" ELSE "ok",
              body |-> chan[k].body, from |-> chan[k].id]

\* rx.recv() returns once a body is buffered or every Sender has been dropped.
make_request_recv(k) ==
    /\ pc[k] = "waiting"
    /\ chan[k] # NoMsg \/ ~SenderAlive(k)
    /\ ret' = [ret EXCEPT ![k] = RecvResult(k)]
    /\ pc' = [pc EXCEPT ![k] = "returned"]
    /\ UNCHANGED <<sgx, stream_ok, reader_running, last_request_id,
                   pending_out_requests, rak_avr, dispatcher_queue, wire, req_id, chan,
                   allocated, last_handled, n_in>>

----------------------------------------------------------------------------
\* Protocol::handle_request and what it calls.

\* RAK::set_avr(avr): binds a valid AVR, rejects any other.
set_avr_ok(avr) == avr = "avr_valid"

\* Mutant of can_handle_runtime_requests: the SGX gate is missing.
can_handle_runtime_requests_always == TRUE

\* Protocol::can_handle_runtime_requests: Ok(()) or Err(AttestationRequired)
can_handle_runtime_requests == ~(sgx /\ rak_avr = NoAvr)

\* Mutant of Reply: Ok(None) is answered like Ok(Some(body)), with an empty body.
Reply_answers_queued(tag, body, queued, avr) ==
    [tag |-> IF tag = "None" THEN "Some" ELSE tag, body |-> body, queued |-> queued,
     avr |-> avr]

\* The value of handle_request(ctx, id, request): Ok(Some(body)), Ok(None) or
\* Err(error), with its effects: `queued` (dispatcher.queue_request was called)
\* and `avr` (the AVR bound afterwards).
Reply(tag, body, queued, avr) == [tag |-> tag, body |-> body, queued |-> queued, avr |-> avr]

handle_request(request) ==
    LET kind == request.kind
        unsupported == Reply("Err", ErrorBody(MethodNotSupported), FALSE, rak_avr)
        queue == Reply("None", NoMsg.body, TRUE, rak_avr)
    IN  CASE kind = "WorkerInfoRequest" ->
               Reply("Some", Body("WorkerInfoResponse", ""), FALSE, rak_avr)
          [] kind = "WorkerPingRequest" ->
               Reply("Some", Body("Empty", ""), FALSE, rak_avr)
          [] kind \in {"WorkerShutdownRequest", "WorkerAbortRequest"} -> unsupported
          [] kind = "WorkerCapabilityTEERakInitRequest" ->
               IF sgx THEN queue ELSE unsupported
          [] kind = "WorkerCapabilityTEERakReportRequest" ->
               IF sgx THEN Reply("Some", Body("WorkerCapabilityTEERakReportResponse", ""),
                                 FALSE, rak_avr)
                      ELSE unsupported
          [] kind = "WorkerCapabilityTEERakAvrRequest" ->
               IF ~sgx THEN unsupported
               ELSE IF set_avr_ok(request.arg)
                   THEN Reply("Some", Body("WorkerCapabilityTEERakAvrResponse", ""),
                              FALSE, request.arg)
                   ELSE Reply("Err", ErrorBody("invalid avr"), FALSE, rak_avr)
          [] kind \in RuntimeRequestKinds ->
               IF can_handle_runtime_requests
                   THEN queue
                   ELSE Reply("Err", ErrorBody(AttestationRequired), FALSE, rak_avr)
          [] OTHER -> unsupported

----------------------------------------------------------------------------
\* Protocol::handle_message, for a frame decode_message has decoded.

\* Mutant of response_sender: the lookup ignores the id of the message.
response_sender_any_id(message) ==
    IF DOMAIN pending_out_requests # {}
        THEN pending_out_requests[CHOOSE i \in DOMAIN pending_out_requests : TRUE]
        ELSE NoCall

\* pending_requests.remove(&message.id): the call whose Sender is removed
response_sender(message) ==
    IF message.id \in DOMAIN pending_out_requests
        THEN pending_out_requests[message.id]
        ELSE NoCall

\* response_sender.try_send(message.body) succeeds when the Receiver is alive and
\* the channel's one slot is free.
try_send_ok(k) == ReceiverAlive(k) /\ chan[k] = NoMsg

handle_message_request(message) ==
    LET r == handle_request(message.body)
    IN  /\ rak_avr' = r.avr
        /\ dispatcher_queue' = IF r.queued
                                 THEN Append(dispatcher_queue,
                                             [id |-> message.id, body |-> message.body])
                                 ELSE dispatcher_queue
        /\ wire' = IF r.tag = "None" THEN wire
                   ELSE Append(wire, Message(message.id, "Response", r.body))
        /\ last_handled' = [frame |-> message,
                            outcome |-> IF r.tag = "None" THEN "queued" ELSE "responded",
                            to |-> NoCall]
        /\ UNCHANGED <<pending_out_requests, chan>>

handle_message_response(message) ==
    LET k == response_sender(message)
    IN  /\ pending_out_requests' = MapRemove(pending_out_requests, message.id)
        /\ chan' = IF k # NoCall /\ try_send_ok(k)
                     THEN [chan EXCEPT ![k] = message]
                     ELSE chan
        /\ last_handled' = [frame |-> message,
                            outcome |-> IF k = NoCall THEN "unknown_request"
                                        ELSE IF try_send_ok(k) THEN "delivered"
                                        ELSE "deliver_failed",
                            to |-> k]
        /\ UNCHANGED <<rak_avr, dispatcher_queue, wire>>

\* Mutant of handle_message_other: a message of any other type is taken for a
\* Response.
handle_message_other_as_response(message) == handle_message_response(message)

\* The `_ =>` arm: warn!("Received a malformed message")
handle_message_other(message) ==
    /\ last_handled' = [frame |-> message, outcome |-> "malformed", to |-> NoCall]
    /\ UNCHANGED <<pending_out_requests, chan, rak_avr, dispatcher_queue, wire>>

\* One iteration of the 'recv loop of Protocol::start on a frame that decodes.
handle_message(message) ==
    /\ reader_running
    /\ stream_ok
    /\ n_in' = n_in + 1
    /\ CASE message.message_type = "Request" -> handle_message_request(message)
         [] message.message_type = "Response" -> handle_message_response(message)
         [] OTHER -> handle_message_other(message)
    /\ UNCHANGED <<sgx, stream_ok, reader_running, last_request_id, pc, req_id, ret,
                   allocated>>

\* decode_message fails (a frame that is too large or does not decode, or the end
\* of the stream): handle_message returns Err and the loop breaks.
reader_stop ==
    /\ reader_running
    /\ reader_running' = FALSE
    /\ UNCHANGED <<sgx, stream_ok, last_request_id, pending_out_requests, rak_avr,
                   dispatcher_queue, wire, pc, req_id, chan, ret, allocated,
                   last_handled, n_in>>

\* The host closes the stream.
stream_close ==
    /\ stream_ok
    /\ stream_ok' = FALSE
    /\ UNCHANGED <<sgx, reader_running, last_request_id, pending_out_requests, rak_avr,
                   dispatcher_queue, wire, pc, req_id, chan, ret, allocated,
                   last_handled, n_in>>

----------------------------------------------------------------------------
\* Runtime client manager (runtime/client/src/manager.rs).

NoClient == 1 - 1
NoNode == "none"

\* Role of a committee member
Leader == "Leader"
Worker == "Worker"

Member(public_key, role) == [public_key |-> public_key, role |-> role]

\* The committees the scheduler publishes: with one Leader, with none, with two,
\* for this runtime or another, of kind Compute or Storage.
MemberLists == {<<Member("n1", Leader), Member("n2", Worker)>>,
                <<Member("n1", Worker), Member("n2", Leader)>>,
                <<Member("n1", Worker), Member("n2", Worker)>>}

Committees == [runtime : {"this"}, kind : {"Compute"}, members : MemberLists]

\* All that scheduler.watch_committees() yields, before the filters of the manager.
WatchedCommittees == [runtime : {"this", "other"}, kind : {"Compute", "Storage"},
                      members : MemberLists]

\* committee.members.iter().filter(|m| m.role == Role::Leader)
\*     .map(|m| m.public_key).next()
first_leader(members) ==
    LET idx == {i \in DOMAIN members : members[i].role = Leader}
    IN  IF idx = {} THEN NoNode
        ELSE members[CHOOSE i \in idx : \A j \in idx : i <= j].public_key

\* Error messages of a runtime call
SHUTDOWN_REASON_TRANSITION == "transition"
OtherError == "other error"

\* A call has made no attempt yet.
NewCall == [pc |-> "ready", target |-> NoClient, dispatches |-> << >>,
            outcomes |-> << >>, result |-> "none"]

\* RuntimeClientManager::new
ManagerInit ==
    /\ leader = NoClient
    /\ future_leader = NoClient
    /\ leader_notify = TRUE
    /\ client_node = << >>
    /\ client_shutdown = << >>
    /\ follower = [pc |-> "idle", new_leader |-> NoNode, last |-> "none",
                   skipped |-> NoNode]
    /\ exited = FALSE
    /\ n_committees = 0
    /\ mcall = [c \in MCalls |-> NewCall]

----------------------------------------------------------------------------
\* The committee follower: RuntimeClientManager::start.

\* Mutant of shutdown_previous: the old client is dropped without shutdown().
shutdown_previous_skipped(shutdowns, previous) == shutdowns

\* if let Some(previous_leader) = previous_leader.take() {
\*     previous_leader.client.shutdown(SHUTDOWN_REASON_TRANSITION) }
shutdown_previous(shutdowns, previous) ==
    IF previous # NoClient
        THEN [shutdowns EXCEPT ![previous] = shutdowns[previous] + 1]
        ELSE shutdowns

\* Mutant of notifies_waiters: the one-shot is never fired.
notifies_waiters_never(previous) == FALSE

\* Mutant of notifies_waiters: the sender is taken at every installation.
notifies_waiters_always(previous) == TRUE

\* if previous_leader.is_none() { leader_notify.take().unwrap().send(new_leader) }
notifies_waiters(previous) == previous = NoClient

\* Mutant of then_exits: the end of the stream is taken for a normal return.
then_exits_on_error(result) == result # "ok"

\* .then(|result| match result { Ok(()) => {..exit(1)}, Err(error) => {..exit(1)} }):
\* whether std::process::exit is called for the result of the for_each future
then_exits(result) == result \in {"ok", "err"}

\* Mutant of committee_passes: committees of every kind of this runtime pass.
committee_passes_any_kind(committee) == committee.runtime = "this"

\* .filter(move |committee| committee.runtime.id == runtime_id)
\* .filter(|committee| committee.kind == CommitteeType::Compute)
committee_passes(committee) == committee.runtime = "this" /\ committee.kind = "Compute"

\* Mutant of same_leader: a committee with the leader already installed is
\* treated as a change.
same_leader_never(previous_leader, new_leader) == FALSE

\* if let Some(ref previous_leader) = *previous_leader {
\*     if previous_leader.node.id == new_leader { return future::ok(()) } }
same_leader(previous_leader, new_leader) ==
    previous_leader # NoClient /\ client_node[previous_leader] = new_leader

\* The for_each closure up to the call of entity_registry.get_node.  An Err it
\* returns ends the for_each future, whose `then` calls std::process::exit(1).
committee_update(committee) ==
    /\ ~exited
    /\ follower.pc = "idle"
    /\ n_committees' = n_committees + 1
    /\ LET passes == committee_passes(committee)
           new_leader == first_leader(committee.members)
       IN  IF ~passes
               THEN /\ follower' = [follower EXCEPT !.last = "filtered",
                                                    !.skipped = new_leader]
                    /\ UNCHANGED exited
           ELSE IF new_leader = NoNode
               THEN /\ follower' = [follower EXCEPT !.last = "missing_leader",
                                                    !.skipped = NoNode]
                    /\ exited' = then_exits("err")
           ELSE IF same_leader(leader, new_leader)
               THEN /\ follower' = [follower EXCEPT !.last = "same_leader",
                                                    !.skipped = NoNode]
                    /\ UNCHANGED exited
           ELSE /\ follower' = [pc |-> "get_node", new_leader |-> new_leader,
                                last |-> "changing", skipped |-> NoNode]
                /\ UNCHANGED exited
    /\ UNCHANGED <<leader, future_leader, leader_notify, client_node, client_shutdown,
                   mcall>>

\* The and_then closure run with the result of get_node: under the write lock the
\* new Leader is created, the waiters are notified the first time, the previous
\* client is shut down and the new leader stored.  A failed get_node ends the
\* for_each future with its error.
get_node_done ==
    /\ ~exited
    /\ follower.pc = "get_node"
    /\ \E found \in BOOLEAN :
         IF found /\ notifies_waiters(leader) /\ ~leader_notify
             THEN \* leader_notify.take().unwrap() on None: the closure panics
                  /\ follower' = [pc |-> "panicked", new_leader |-> NoNode,
                                  last |-> "panicked", skipped |-> NoNode]
                  /\ UNCHANGED <<leader, future_leader, leader_notify, client_node,
                                 client_shutdown, exited>>
         ELSE IF found
             THEN LET new_leader == Len(client_node) + 1
                  IN  /\ client_node' = Append(client_node, follower.new_leader)
                      /\ future_leader' = IF notifies_waiters(leader)
                                              THEN new_leader ELSE future_leader
                      /\ leader_notify' = IF notifies_waiters(leader)
                                              THEN FALSE ELSE leader_notify
                      /\ client_shutdown' =
                            shutdown_previous(Append(client_shutdown, 0), leader)
                      /\ leader' = new_leader
                      /\ follower' = [pc |-> "idle", new_leader |-> NoNode,
                                      last |-> "installed", skipped |-> NoNode]
                      /\ UNCHANGED exited
             ELSE /\ exited' = then_exits("err")
                  /\ follower' = [follower EXCEPT !.last = "failed"]
                  /\ UNCHANGED <<leader, future_leader, leader_notify, client_node,
                                 client_shutdown>>
    /\ UNCHANGED <<n_committees, mcall>>

\* The committee stream ends: Ok(()) reaches `then`, which exits.
stream_end ==
    /\ ~exited
    /\ follower.pc = "idle"
    /\ exited' = then_exits("ok")
    /\ follower' = [follower EXCEPT !.last = "stream_end"]
    /\ UNCHANGED <<leader, future_leader, leader_notify, client_node, client_shutdown,
                   n_committees, mcall>>

----------------------------------------------------------------------------
\* RuntimeClientManager::call and call_leader.

\* RuntimeClient::call on a client: a client that has been shut down with
\* SHUTDOWN_REASON_TRANSITION fails its calls with that message; any other call
\* succeeds or fails with another error.
CallOutcomes(client) ==
    IF client_shutdown[client] > 0
        THEN {SHUTDOWN_REASON_TRANSITION}
        ELSE {"ok", OtherError}

\* Mutant of is_permanent: no error stops the retries.
is_permanent_never(error) == FALSE

\* |error| error.message != RuntimeClient::SHUTDOWN_REASON_TRANSITION
is_permanent(error) == error # SHUTDOWN_REASON_TRANSITION

\* Mutant of max_retries: one retry more.
max_retries_two == 1 + 1

\* The last argument of retry_until_ok_or_max
max_retries == 1

\* retry_until_ok_or_max: what follows an attempt, `attempts` having been made.
retry_decision(outcome, attempts) ==
    IF outcome = "ok" THEN "return"
    ELSE IF is_permanent(outcome) THEN "return"
    ELSE IF attempts <= max_retries THEN "retry"
    ELSE "return"

Dispatch(client, via) == [client |-> client, via |-> via, slot |-> leader]

\* Mutant of call_leader_target: the call goes to the first leader ever installed.
call_leader_target_first == IF leader # NoClient THEN 1 ELSE NoClient

\* inner.leader.read(): the client call_leader dispatches to, if there is one
call_leader_target == leader

\* call_leader: dispatch to the leader in the slot, or wait on the one-shot.
call_leader(c) ==
    /\ ~exited
    /\ mcall[c].pc = "ready"
    /\ mcall' = [mcall EXCEPT ![c] =
          IF call_leader_target # NoClient
              THEN [@ EXCEPT !.pc = "inflight",
                             !.target = call_leader_target,
                             !.dispatches = Append(@, Dispatch(call_leader_target, "slot"))]
              ELSE [@ EXCEPT !.pc = "wait"]]
    /\ UNCHANGED <<leader, future_leader, leader_notify, client_node, client_shutdown,
                   follower, exited, n_committees>>

\* future_leader.and_then(|leader| leader.client.call(..)): runs once the one-shot
\* has a value.
waiter_dispatch(c) ==
    /\ ~exited
    /\ mcall[c].pc = "wait"
    /\ future_leader # NoClient
    /\ mcall' = [mcall EXCEPT ![c] =
          [@ EXCEPT !.pc = "inflight",
                    !.target = future_leader,
                    !.dispatches = Append(@, Dispatch(future_leader, "oneshot"))]]
    /\ UNCHANGED <<leader, future_leader, leader_notify, client_node, client_shutdown,
                   follower, exited, n_committees>>

\* An attempt completes and retry_until_ok_or_max returns its result or retries.
call_complete(c) ==
    /\ ~exited
    /\ mcall[c].pc = "inflight"
    /\ \E outcome \in CallOutcomes(mcall[c].target) :
         LET attempts == Len(mcall[c].dispatches)
             again == retry_decision(outcome, attempts) = "retry"
         IN  mcall' = [mcall EXCEPT ![c] =
                 [@ EXCEPT !.pc = IF again THEN "ready" ELSE "done",
                           !.target = NoClient,
                           !.outcomes = Append(@, outcome),
                           !.result = IF again THEN "none" ELSE outcome]]
    /\ UNCHANGED <<leader, future_leader, leader_notify, client_node, client_shutdown,
                   follower, exited, n_committees>>

MgrNext ==
    \/ \E committee \in Committees :
         n_committees < MaxCommittees /\ committee_update(committee)
                                      /\ UNCHANGED <<protoVars, workerVars, extVars, libVars>>
    \/ get_node_done /\ UNCHANGED <<protoVars, workerVars, extVars, libVars>>
    \/ stream_end /\ UNCHANGED <<protoVars, workerVars, extVars, libVars>>
    \/ \E c \in MCalls : call_leader(c) /\ UNCHANGED <<protoVars, workerVars, extVars, libVars>>
    \/ \E c \in MCalls : waiter_dispatch(c) /\ UNCHANGED <<protoVars, workerVars, extVars, libVars>>
    \/ \E c \in MCalls : call_complete(c) /\ UNCHANGED <<protoVars, workerVars, extVars, libVars>>

\* The manager under a scheduler that yields the committees of every runtime and
\* kind.
WatchNext ==
    \/ \E committee \in WatchedCommittees :
         n_committees < MaxWatched /\ committee_update(committee)
                                   /\ UNCHANGED <<protoVars, workerVars, extVars, libVars>>
    \/ get_node_done /\ UNCHANGED <<protoVars, workerVars, extVars, libVars>>
    \/ stream_end /\ UNCHANGED <<protoVars, workerVars, extVars, libVars>>
    \/ \E c \in MCalls : call_leader(c) /\ UNCHANGED <<protoVars, workerVars, extVars, libVars>>
    \/ \E c \in MCalls : waiter_dispatch(c) /\ UNCHANGED <<protoVars, workerVars, extVars, libVars>>
    \/ \E c \in MCalls : call_complete(c) /\ UNCHANGED <<protoVars, workerVars, extVars, libVars>>

----------------------------------------------------------------------------
\* Contract worker (compute/src/worker.rs).

\* The enclave, as far as the worker sees it.  A call "put_x" inserts value x
\* into the batch storage and yields an output; "bad" fails on its own and its
\* error is encoded as its output; "abort" makes contract_call_batch return a
\* batch-wide Err, the inserts of the calls before it staying in the batch
\* storage.
CallBatches == {<< >>, <<"put_a">>, <<"put_a", "put_b">>, <<"bad", "put_b">>,
                <<"put_a", "abort">>, <<"abort", "put_b">>}

RpcRequests == {"good", "unparsable", "unanswered"}

StateRoots == {"root0"}

OkResult(value) == [ok |-> TRUE, value |-> value]
ErrResult(message) == [ok |-> FALSE, value |-> message]
NoResult == [ok |-> FALSE, value |-> "none"]

\* The calls that run: all of them, or those before the first "abort".
RECURSIVE executed(_)
executed(calls) ==
    IF calls = << >> \/ Head(calls) = "abort" THEN << >>
    ELSE <<Head(calls)>> \o executed(Tail(calls))

\* The values the executed calls insert into the batch storage.
batch_writes(calls) ==
    LET e == executed(calls)
    IN  {IF e[i] = "put_a" THEN "a" ELSE "b" : i \in {j \in DOMAIN e : e[j] # "bad"}}

\* self.contract.contract_call_batch(batch, &block.header): Result<OutputBatch>
contract_call_batch(calls) ==
    IF \E i \in DOMAIN calls : calls[i] = "abort"
        THEN ErrResult("batch error")
        ELSE OkResult([i \in DOMAIN calls |->
                          IF calls[i] = "bad" THEN "call error" ELSE "done"])

\* The state root with_storage returns after the closure has run.
new_state_root(root, calls) == [parent |-> root, writes |-> batch_writes(calls)]

\* BatchStorageBackend::commit(opts): the buffered values reach the local store,
\* and the durable store unless opts.local_only.
commit(store, writes, local_only) ==
    [local |-> store.local \cup writes,
     durable |-> IF local_only THEN store.durable ELSE store.durable \cup writes]

\* Mutant of InsertOptions: every commit goes to the durable backend.
InsertOptions_durable(commit_storage) == [local_only |-> FALSE]

\* let opts = InsertOptions { local_only: !commit_storage }
InsertOptions(commit_storage) == [local_only |-> ~commit_storage]

\* Mutant of BatchStorageBackend_new: the buffer of the batch before is kept.
BatchStorageBackend_reused(log) == IF log = << >> THEN {} ELSE log[Len(log)].writes

\* BatchStorageBackend::new(self.storage.clone()): the buffer of a new batch
\* storage holds nothing, whatever was committed before
BatchStorageBackend_new(log) == {}

\* WorkerInner::call_contract_batch_fallible for a batch on which with_storage
\* succeeded (with_storage_ok) or failed and commit succeeded (commit_ok) or
\* failed: its result, whether commit was invoked, and the storage afterwards.
call_contract_batch_fallible(command, with_storage_ok, commit_ok) ==
    LET calls == command.calls
        outputs == contract_call_batch(calls)
        opts == InsertOptions(command.commit_storage)
        writes == BatchStorageBackend_new(commit_log) \cup batch_writes(calls)
    IN  IF ~with_storage_ok
            THEN [result |-> ErrResult("storage context error"),
                  committed |-> FALSE, storage |-> storage, opts |-> opts,
                  writes |-> writes]
        ELSE IF ~commit_ok
            THEN [result |-> ErrResult("commit error"),
                  committed |-> TRUE, storage |-> storage, opts |-> opts,
                  writes |-> writes]
        ELSE [result |-> IF outputs.ok
                            THEN OkResult([outputs |-> outputs.value,
                                           new_state_root |->
                                               new_state_root(command.state_root, calls)])
                            ELSE outputs,
              committed |-> TRUE,
              storage |-> commit(storage, writes, opts.local_only),
              opts |-> opts, writes |-> writes]

\* WorkerInner::handle_rpc_call
handle_rpc_call(request) ==
    CASE request = "unparsable" -> ErrResult("parse error")
      [] request = "unanswered" -> ErrResult("no response to rpc call")
      [] OTHER -> OkResult("response")

\* Worker::new
WorkerInit ==
    /\ command_queue = << >>
    /\ n_commands = 0
    /\ results = << >>
    /\ storage = [local |-> {}, durable |-> {}]
    /\ commit_log = << >>
    /\ handled = << >>
    /\ receivers = << >>
    /\ worker_running = TRUE

\* Worker::contract_call_batch: send Command::ContractCallBatch
send_contract_call_batch(calls, state_root, commit_storage) ==
    /\ worker_running
    /\ n_commands' = n_commands + 1
    /\ command_queue' = Append(command_queue,
          [id |-> n_commands + 1, type |-> "ContractCallBatch", calls |-> calls,
           state_root |-> state_root, commit_storage |-> commit_storage,
           request |-> ""])
    /\ results' = Append(results, NoResult)
    /\ receivers' = Append(receivers, TRUE)
    /\ UNCHANGED <<storage, commit_log, handled, worker_running>>

\* Worker::rpc_call: send Command::RpcCall
send_rpc_call(request) ==
    /\ worker_running
    /\ n_commands' = n_commands + 1
    /\ command_queue' = Append(command_queue,
          [id |-> n_commands + 1, type |-> "RpcCall", calls |-> << >>,
           state_root |-> "", commit_storage |-> FALSE, request |-> request])
    /\ results' = Append(results, NoResult)
    /\ receivers' = Append(receivers, TRUE)
    /\ UNCHANGED <<storage, commit_log, handled, worker_running>>

\* Mutant of recv: the channel hands out the command sent last.
recv_newest(queue) ==
    [command |-> queue[Len(queue)], rest |-> SubSeq(queue, 1, Len(queue) - 1)]

\* command_receiver.recv() on the mpsc channel: the command sent first
recv(queue) == [command |-> Head(queue), rest |-> Tail(queue)]

\* The caller of command id drops the oneshot::Receiver it was given.
receiver_drop(id) ==
    /\ id \in DOMAIN receivers
    /\ receivers[id]
    /\ receivers' = [receivers EXCEPT ![id] = FALSE]
    /\ UNCHANGED <<command_queue, n_commands, results, storage, commit_log, handled,
                   worker_running>>

\* sender.send(result): Err(result) once the Receiver has been dropped
oneshot_send_ok(id) == receivers[id]

\* sender.send(result).unwrap(): the result is with the receiver, or the thread
\* of the worker panics.
send_unwrap(id, result) ==
    /\ results' = IF oneshot_send_ok(id) THEN [results EXCEPT ![id] = result] ELSE results
    /\ worker_running' = oneshot_send_ok(id)

\* One iteration of WorkerInner::work: receive the next command and handle it
\* (handle_contract_batch or handle_rpc_call), sending the result.
work ==
    /\ worker_running
    /\ command_queue # << >>
    /\ LET command == recv(command_queue).command
       IN  /\ command_queue' = recv(command_queue).rest
           /\ handled' = Append(handled, command.id)
           /\ IF command.type = "RpcCall"
                 THEN /\ send_unwrap(command.id, handle_rpc_call(command.request))
                      /\ UNCHANGED <<storage, commit_log>>
                 ELSE \E with_storage_ok, commit_ok \in BOOLEAN :
                        LET r == call_contract_batch_fallible(command, with_storage_ok,
                                                              commit_ok)
                        IN  /\ send_unwrap(command.id, r.result)
                            /\ storage' = r.storage
                            /\ commit_log' =
                                  IF r.committed
                                      THEN Append(commit_log,
                                                  [id |-> command.id,
                                                   local_only |-> r.opts.local_only,
                                                   writes |-> r.writes,
                                                   calls |-> command.calls,
                                                   state_root |-> command.state_root])
                                      ELSE commit_log
    /\ UNCHANGED <<n_commands, receivers>>

WorkerNext ==
    \/ \E calls \in CallBatches, root \in StateRoots, commit_storage \in BOOLEAN :
         /\ n_commands < MaxCommands
         /\ send_contract_call_batch(calls, root, commit_storage)
         /\ UNCHANGED <<protoVars, mgrVars, extVars, libVars>>
    \/ \E request \in RpcRequests :
         /\ n_commands < MaxCommands
         /\ send_rpc_call(request)
         /\ UNCHANGED <<protoVars, mgrVars, extVars, libVars>>
    \/ work /\ UNCHANGED <<protoVars, mgrVars, extVars, libVars>>

\* The worker and callers that may drop their receivers.
WorkerDropNext ==
    \/ \E calls \in CallBatches, root \in StateRoots, commit_storage \in BOOLEAN :
         /\ n_commands < MaxCommands
         /\ send_contract_call_batch(calls, root, commit_storage)
         /\ UNCHANGED <<protoVars, mgrVars, extVars, libVars>>
    \/ \E request \in RpcRequests :
         /\ n_commands < MaxCommands
         /\ send_rpc_call(request)
         /\ UNCHANGED <<protoVars, mgrVars, extVars, libVars>>
    \/ \E id \in 1..MaxCommands :
         receiver_drop(id) /\ UNCHANGED <<protoVars, mgrVars, extVars, libVars>>
    \/ work /\ UNCHANGED <<protoVars, mgrVars, extVars, libVars>>

----------------------------------------------------------------------------
\* Framing and codec of the worker-host protocol: encode_message, decode_message.

\* const MAX_MESSAGE_SIZE: usize = 104_857_600
MAX_MESSAGE_SIZE == 104857600

\* A message with its span context.
FullMessage(id, message_type, body, span_context) ==
    [id |-> id, message_type |-> message_type, body |-> body,
     span_context |-> span_context]

NoFullMessage == FullMessage(NoId, "None", NoMsg.body, << >>)

\* MessageType::serialize: serialize_u8(*self as u8)
MessageType_serialize(message_type) ==
    CASE message_type = "Request" -> 1
      [] message_type = "Response" -> 2
      [] message_type = "KeepAlive" -> 3
      [] OTHER -> 0

\* Mutant of MessageType_deserialize: an unknown number is taken as KeepAlive.
MessageType_deserialize_lenient(n) ==
    CASE n = 1 -> "Request"
      [] n = 2 -> "Response"
      [] OTHER -> "KeepAlive"

\* MessageType::deserialize: 1, 2, 3 or Err("invalid message type")
MessageType_deserialize(n) ==
    CASE n = 1 -> "Request"
      [] n = 2 -> "Response"
      [] n = 3 -> "KeepAlive"
      [] OTHER -> "error"

\* Length in bytes of the head of a CBOR item with argument n (n < 2^31).
head_len(n) == IF n < 24 THEN 1 ELSE IF n < 256 THEN 2 ELSE IF n < 65536 THEN 3 ELSE 5

\* Length of a CBOR text or byte string of n bytes.
string_len(n) == head_len(n) + n

\* Length of the name of a Body variant.
NameLen(kind) ==
    CASE kind \in {"Empty", "Error"} -> 5
      [] kind = "WorkerPingRequest" -> 17
      [] kind = "WorkerInfoRequest" -> 17
      [] kind = "WorkerAbortRequest" -> 18
      [] kind = "WorkerShutdownRequest" -> 21
      [] OTHER -> 27

\* The body whose field holds the large values.
BlobKind == "WorkerExecuteTxBatchRequest"

\* Length of the CBOR encoding of a message, the bytes of the body's field left
\* out: a map of four entries (id, message_type, body, span_context), the body a
\* map from the variant name to a map with the field.
envelope_len(id, kind, span_context) ==
    1 + (string_len(2) + head_len(id)) + (string_len(12) + 1)
      + (string_len(4) + 1 + string_len(NameLen(kind)) + 1 + string_len(5))
      + (string_len(12) + string_len(Len(span_context)))

\* The field length with which a BlobKind message with a small id and no span
\* context encodes to exactly MAX_MESSAGE_SIZE bytes.
FitLen == MAX_MESSAGE_SIZE - envelope_len(0, BlobKind, << >>) - 5

\* Length in bytes of the value of the body's field.
ArgLen(arg) ==
    CASE arg = "" -> 0
      [] arg = "blob_300" -> 300
      [] arg = "blob_fit" -> FitLen
      [] arg = "blob_over" -> FitLen + 1
      [] OTHER -> 8

cbor_len(message) ==
    envelope_len(message.id, message.body.kind, message.span_context)
        + string_len(ArgLen(message.body.arg))

\* cbor::to_vec(&message): the bytes, as the CBOR map they hold and their number.
to_vec(message) ==
    [well_formed |-> TRUE,
     id |-> message.id,
     message_type |-> MessageType_serialize(message.message_type),
     body |-> message.body,
     span_context |-> message.span_context,
     len |-> cbor_len(message)]

\* n bytes that are no CBOR encoding of a Message.
Garbage(n) ==
    [well_formed |-> FALSE, id |-> 0, message_type |-> 0, body |-> NoMsg.body,
     span_context |-> << >>, len |-> n]

\* The first n bytes of a buffer: a strict prefix of a CBOR item is no CBOR item.
FirstBytes(buffer, n) == IF n >= buffer.len THEN buffer ELSE Garbage(n)

\* cbor::from_slice(&buffer): Result<Message>
from_slice(buffer) ==
    IF ~buffer.well_formed
        THEN [ok |-> FALSE, error |-> "cbor error", message |-> NoFullMessage]
    ELSE IF MessageType_deserialize(buffer.message_type) = "error"
        THEN [ok |-> FALSE, error |-> "invalid message type", message |-> NoFullMessage]
    ELSE [ok |-> TRUE, error |-> "none",
          message |-> FullMessage(buffer.id, MessageType_deserialize(buffer.message_type),
                                  buffer.body, buffer.span_context)]

\* writer.write_u32::<BigEndian>(n): the four bytes
write_u32(n) == <<(n \div 16777216) % 256, (n \div 65536) % 256, (n \div 256) % 256, n % 256>>

\* Mutant of read_u32: the bytes are read in little-endian order.
read_u32_little_endian(bytes) ==
    bytes[4] * 16777216 + bytes[3] * 65536 + bytes[2] * 256 + bytes[1]

\* reader.read_u32::<BigEndian>() on four bytes (values below 2^31)
read_u32(bytes) == bytes[1] * 16777216 + bytes[2] * 65536 + bytes[3] * 256 + bytes[4]

NoFrame == [prefix |-> <<0, 0, 0, 0>>, payload |-> Garbage(0)]

\* Protocol::encode_message, the stream accepting the bytes: the frame written
\* and the number of bytes written.
encode_message(message) ==
    LET buffer == to_vec(message)
    IN  IF buffer.len > MAX_MESSAGE_SIZE
            THEN [ok |-> FALSE, error |-> "message too large", frame |-> NoFrame,
                  written |-> 0]
            ELSE [ok |-> TRUE, error |-> "none",
                  frame |-> [prefix |-> write_u32(buffer.len), payload |-> buffer],
                  written |-> 4 + buffer.len]

\* Mutant of too_large: a frame of exactly the maximum size is refused.
too_large_inclusive(length) == length >= MAX_MESSAGE_SIZE

\* if length > MAX_MESSAGE_SIZE { return Err(ProtocolError::MessageTooLarge) }
too_large(length) == length > MAX_MESSAGE_SIZE

\* Protocol::decode_message on the bytes at the head of the stream, frame.payload
\* being all the bytes that follow the prefix: the result, the length read from
\* the prefix and the number of payload bytes read.
decode_message(frame) ==
    LET length == read_u32(frame.prefix)
    IN  IF too_large(length)
            THEN [ok |-> FALSE, error |-> "message too large", length |-> length,
                  payload_read |-> 0, message |-> NoFullMessage]
        ELSE IF frame.payload.len < length
            THEN [ok |-> FALSE, error |-> "unexpected eof", length |-> length,
                  payload_read |-> frame.payload.len, message |-> NoFullMessage]
        ELSE LET r == from_slice(FirstBytes(frame.payload, length))
             IN  [ok |-> r.ok, error |-> r.error, length |-> length,
                  payload_read |-> length, message |-> r.message]

----------------------------------------------------------------------------
\* The reader loop on the bytes of the stream.

\* The messages the host encodes into well-formed frames.
HostRequestKinds == {"WorkerPingRequest", "WorkerShutdownRequest", "WorkerAbortRequest",
                     "WorkerCapabilityTEERakInitRequest", "HostRPCCallRequest", "Empty",
                     "WorkerRPCCallRequest"}

HostMessages ==
    {FullMessage(i, "Request", Body(k, ""), << >>) : i \in HostIds, k \in HostRequestKinds}
    \cup {FullMessage(0, "Response", Body("HostLocalStorageGetResponse", "v"), << >>),
          FullMessage(1, "KeepAlive", Body("Empty", ""), <<7>>),
          FullMessage(1, "Request", Body(BlobKind, "blob_fit"), << >>)}

\* What the host may write: well-formed frames, the largest one included; frames
\* whose prefix exceeds the maximum; a payload that is no CBOR message; a message
\* type that is no MessageType; and a frame cut short by the end of the stream.
RawFrames ==
    {encode_message(m).frame : m \in HostMessages}
    \cup {[prefix |-> write_u32(MAX_MESSAGE_SIZE + 1),
           payload |-> to_vec(FullMessage(1, "Request", Body(BlobKind, "blob_over"), << >>))],
          [prefix |-> <<127, 255, 255, 255>>, payload |-> Garbage(10)],
          [prefix |-> write_u32(10), payload |-> Garbage(10)],
          [prefix |-> write_u32(60), payload |-> Garbage(10)]}
    \cup {[prefix |-> write_u32(cbor_len(m)),
           payload |-> [to_vec(m) EXCEPT !.message_type = t]] :
            m \in {FullMessage(1, "Request", Body("WorkerPingRequest", ""), << >>)},
            t \in {0, 4}}

\* Mutant of loop_breaks: the loop goes on after an error.
loop_breaks_never(ok) == FALSE

\* match self.handle_message(&mut reader) { Err(error) => break 'recv, Ok(()) => {} }
loop_breaks(ok) == ~ok

\* One iteration of the 'recv loop of Protocol::start on the bytes at the head of
\* the stream: decode_message, then the rest of handle_message.
start_iteration(frame) ==
    LET d == decode_message(frame)
    IN  /\ reader_running
        /\ stream_ok
        /\ rd' = [consumed |-> rd.consumed + 4 + d.payload_read, length |-> d.length,
                  payload_read |-> d.payload_read, error |-> d.error, frame |-> frame]
        /\ IF d.ok
              THEN handle_message(d.message)
              ELSE /\ reader_running' = ~loop_breaks(d.ok)
                   /\ n_in' = n_in + 1
                   /\ last_handled' = [frame |-> NoMsg, outcome |-> "decode_error",
                                       to |-> NoCall]
                   /\ UNCHANGED <<sgx, stream_ok, last_request_id, pending_out_requests,
                                  rak_avr, dispatcher_queue, wire, pc, req_id, chan, ret,
                                  allocated>>

----------------------------------------------------------------------------
\* Cancellation of the context of a make_request call.

\* The caller's Context is cancelled while the request is outstanding.
\* make_request reads the span context of ctx and nothing else: nothing follows.
cancel(k) ==
    /\ pc[k] = "waiting"
    /\ chan[k] = NoMsg
    /\ ~cancelled[k]
    /\ cancelled' = [cancelled EXCEPT ![k] = TRUE]
    /\ UNCHANGED <<protoVars, frameVars, wireVars, libVars>>

\* No thread holds outgoing_mutex.
NoWriter == 1 - 1

Writers == 1..NumWriters

\* Protocol::new, the reader and the contexts at the start.
ExtInit ==
    /\ cancelled = [k \in Calls |-> FALSE]
    /\ rd = [consumed |-> 0, length |-> 0, payload_read |-> 0, error |-> "none",
             frame |-> NoFrame]
    /\ codec = [pc |-> "idle", op |-> "none", message |-> NoFullMessage,
                enc |-> [ok |-> FALSE], dec |-> [ok |-> FALSE]]
    /\ outgoing_mutex = NoWriter
    /\ writer = [w \in Writers |-> [pc |-> "idle", buf |-> << >>, n |-> 0, big |-> FALSE]]
    /\ stream_out = << >>
    /\ lock_order = << >>

----------------------------------------------------------------------------
\* One message through encode_message and then decode_message.

\* The messages taken through the codec: ids with heads of every length, the
\* three message types, bodies up to and over the maximum size, span contexts.
CodecIds == {0, 24, 256, 65536}

CodecBodies == {Body("Empty", ""), ErrorBody("host error"), Body(BlobKind, "blob_300"),
                Body(BlobKind, "blob_fit"), Body(BlobKind, "blob_over")}

CodecMessages ==
    {FullMessage(i, t, b, sc) :
        i \in CodecIds, t \in {"Request", "Response", "KeepAlive"}, b \in CodecBodies,
        sc \in {<< >>, <<7>>}}

\* encode_message(message) on a stream that takes the bytes.
codec_encode(message) ==
    /\ codec.pc = "idle"
    /\ codec' = [codec EXCEPT !.pc = "encoded", !.op = "encode_message",
                              !.message = message,
                              !.enc = encode_message(message)]
    /\ UNCHANGED <<cancelled, rd, wireVars>>

\* Mutant of send_response_message: the frame is marked as a request.
send_response_message_request(id, body) == FullMessage(id, "Request", body, << >>)

\* Message { id, body, span_context: vec![], message_type: MessageType::Response }
send_response_message(id, body) == FullMessage(id, "Response", body, << >>)

\* send_response(id, body) on a stream that takes the bytes.
send_response(id, body) ==
    /\ codec.pc = "idle"
    /\ codec' = [codec EXCEPT !.pc = "encoded",
                              !.op = "send_response",
                              !.message = send_response_message(id, body),
                              !.enc = encode_message(send_response_message(id, body))]
    /\ UNCHANGED <<cancelled, rd, wireVars>>

\* decode_message on the bytes encode_message wrote.
codec_decode ==
    /\ codec.pc = "encoded"
    /\ codec.enc.ok
    /\ codec' = [codec EXCEPT !.pc = "decoded", !.dec = decode_message(codec.enc.frame)]
    /\ UNCHANGED <<cancelled, rd, wireVars>>

----------------------------------------------------------------------------
\* Concurrent senders inside encode_message: the outgoing mutex and the BufWriter.

\* A piece of a frame as one write to the stream carries it.
Chunk(n, part) == [n |-> n, part |-> part]

\* The writes that make up frame n: a frame smaller than the BufWriter's buffer
\* leaves it in one piece at the flush; the payload of a larger one is written
\* past the buffer, in more than one write.
FrameChunks(n, big) ==
    IF big THEN <<Chunk(n, "prefix"), Chunk(n, "payload_1"), Chunk(n, "payload_2")>>
           ELSE <<Chunk(n, "prefix"), Chunk(n, "payload")>>

\* Mutant of mutex_available: lock() never blocks.
mutex_available_always(holder) == TRUE

\* self.outgoing_mutex.lock(): returns when no thread holds the mutex
mutex_available(holder) == holder = NoWriter

\* let _guard = self.outgoing_mutex.lock().unwrap(); let mut writer = BufWriter::new(..)
writer_lock(w, big) ==
    /\ writer[w].pc = "idle"
    /\ mutex_available(outgoing_mutex)
    /\ outgoing_mutex' = w
    /\ lock_order' = Append(lock_order, [w |-> w, big |-> big])
    /\ writer' = [writer EXCEPT ![w] = [pc |-> "locked", buf |-> << >>,
                                        n |-> Len(lock_order) + 1, big |-> big]]
    /\ UNCHANGED <<stream_out, cancelled, frameVars>>

\* writer.write_u32::<BigEndian>(buffer.len() as u32): four bytes into the buffer
writer_write_u32(w) ==
    /\ writer[w].pc = "locked"
    /\ writer' = [writer EXCEPT ![w].pc = "prefix_written",
                                ![w].buf = <<Chunk(writer[w].n, "prefix")>>]
    /\ UNCHANGED <<outgoing_mutex, stream_out, lock_order, cancelled, frameVars>>

\* writer.write_all(&buffer): a small payload joins the prefix in the buffer; for
\* a large one the buffer is flushed and the payload written to the stream.
writer_write_all(w) ==
    /\ writer[w].pc = "prefix_written"
    /\ IF writer[w].big
          THEN /\ stream_out' = stream_out \o writer[w].buf
                                    \o <<Chunk(writer[w].n, "payload_1")>>
               /\ writer' = [writer EXCEPT ![w].pc = "payload_partial", ![w].buf = << >>]
          ELSE /\ writer' = [writer EXCEPT ![w].pc = "written",
                                          ![w].buf = Append(@, Chunk(writer[w].n, "payload"))]
               /\ UNCHANGED stream_out
    /\ UNCHANGED <<outgoing_mutex, lock_order, cancelled, frameVars>>

\* write_all goes on until the whole payload is written.
writer_write_rest(w) ==
    /\ writer[w].pc = "payload_partial"
    /\ stream_out' = Append(stream_out, Chunk(writer[w].n, "payload_2"))
    /\ writer' = [writer EXCEPT ![w].pc = "written"]
    /\ UNCHANGED <<outgoing_mutex, lock_order, cancelled, frameVars>>

\* Ok(()): writer is dropped, which flushes its buffer, and then _guard.
writer_return(w) ==
    /\ writer[w].pc = "written"
    /\ stream_out' = stream_out \o writer[w].buf
    /\ writer' = [writer EXCEPT ![w].pc = "idle", ![w].buf = << >>]
    /\ outgoing_mutex' = NoWriter
    /\ UNCHANGED <<lock_order, cancelled, frameVars>>

----------------------------------------------------------------------------
\* Storage backends (storage/base, storage/dummy, storage/batch).

\* The values stored: byte strings.
StorageValues == {<<1>>, <<2>>, <<1, 2>>}

\* Mutant of hash_storage_key: a digest that looks at the length only.
hash_storage_key_len(value) == Len(value)

\* hash_storage_key: H256::from(digest::digest(&digest::SHA512_256, value)),
\* a digest of the bytes of the value, free of collisions on StorageValues.
RECURSIVE hash_storage_key(_)
hash_storage_key(value) ==
    IF value = << >> THEN 7
    ELSE (31 * hash_storage_key(Tail(value)) + Head(value)) % 251

\* The keys get is called with: the key of every value, and a key of no value.
StorageKeys == {hash_storage_key(v) : v \in StorageValues} \cup {0}

\* Mutant of storage_insert: the backend numbers its entries itself.
storage_insert_own_key(map, value) == MapInsert(map, 1000 + Cardinality(DOMAIN map), value)

\* let key = hash_storage_key(&value); inner.storage.insert(key, value)
storage_insert(map, value) == MapInsert(map, hash_storage_key(value), value)

\* DummyStorageBackend::new, BatchStorageBackend::new
StoreInit ==
    /\ dummy_storage = << >>
    /\ batch_storage = [buffer |-> {}, commits |-> 0]
    /\ inserted = {}
    /\ store_ret = [op |-> "none", key |-> 0, result |-> NoResult]

\* DummyStorageBackend::insert(value, _expiry), its future driven to the end
dummy_insert(value, expiry) ==
    /\ dummy_storage' = storage_insert(dummy_storage, value)
    /\ inserted' = inserted \cup {value}
    /\ store_ret' = [op |-> "insert", key |-> hash_storage_key(value),
                     result |-> OkResult("unit")]
    /\ UNCHANGED batch_storage

\* DummyStorageBackend::get(key), its future driven to the end
dummy_get(key) ==
    /\ store_ret' = [op |-> "get", key |-> key,
                     result |-> IF key \in DOMAIN dummy_storage
                                   THEN OkResult(dummy_storage[key])
                                   ELSE ErrResult("key not found")]
    /\ UNCHANGED <<dummy_storage, batch_storage, inserted>>

\* BatchStorageBackend::insert(value, expiry): the value is buffered
batch_insert(value, expiry) ==
    /\ value \notin batch_storage.buffer
    /\ batch_storage' = [buffer |-> batch_storage.buffer \cup {value}, commits |-> 0]
    /\ store_ret' = [op |-> "batch_insert", key |-> hash_storage_key(value),
                     result |-> OkResult("unit")]
    /\ UNCHANGED <<dummy_storage, inserted>>

\* The backend after every value of a set was inserted into it.
RECURSIVE insert_all(_, _)
insert_all(map, values) ==
    IF values = {} THEN map
    ELSE LET v == CHOOSE x \in values : TRUE
         IN  insert_all(storage_insert(map, v), values \ {v})

\* BatchStorageBackend::commit: every buffered value is inserted into the backend
batch_commit ==
    /\ batch_storage.commits < MaxCommits
    /\ dummy_storage' = insert_all(dummy_storage, batch_storage.buffer)
    /\ inserted' = inserted \cup batch_storage.buffer
    /\ batch_storage' = [batch_storage EXCEPT !.commits = @ + 1]
    /\ store_ret' = [op |-> "commit", key |-> 0, result |-> OkResult("unit")]

StoreNext ==
    \/ \E v \in StorageValues, e \in {0, 10} :
          dummy_insert(v, e) /\ UNCHANGED <<protoVars, mgrVars, workerVars, extVars, typedVars, promVars, conv, config, selVars, hdrVars>>
    \/ \E k \in StorageKeys :
          dummy_get(k) /\ UNCHANGED <<protoVars, mgrVars, workerVars, extVars, typedVars, promVars, conv, config, selVars, hdrVars>>
    \/ \E v \in StorageValues, e \in {0, 10} :
          batch_insert(v, e) /\ UNCHANGED <<protoVars, mgrVars, workerVars, extVars, typedVars, promVars, conv, config, selVars, hdrVars>>
    \/ batch_commit /\ UNCHANGED <<protoVars, mgrVars, workerVars, extVars, typedVars, promVars, conv, config, selVars, hdrVars>>

----------------------------------------------------------------------------
\* Typed host requests: HostReadSyncer (get_subtree, get_path, get_node) and
\* ProtocolUntrustedLocalStorage (get, insert), each a make_request and a match.

TypedMethods == {"get_subtree", "get_path", "get_node", "get", "insert"}

SyncMethods == {"get_subtree", "get_path", "get_node"}

\* The Body each method passes to make_request.
typed_request_body(method) ==
    CASE method = "get_subtree" -> Body("HostStorageSyncGetSubtreeRequest", "root")
      [] method = "get_path" -> Body("HostStorageSyncGetPathRequest", "root")
      [] method = "get_node" -> Body("HostStorageSyncGetNodeRequest", "root")
      [] method = "get" -> Body("HostLocalStorageGetRequest", "key")
      [] method = "insert" -> Body("HostLocalStorageSetRequest", "key")

\* The bodies a host may answer with.
TypedReplies == {Body("HostStorageSyncSerializedResponse", "tree"),
                 Body("HostStorageSyncSerializedResponse", "garbage"),
                 Body("HostLocalStorageGetResponse", "v"),
                 Body("HostLocalStorageSetResponse", ""),
                 Body("Empty", ""), ErrorBody("host error")}

\* What make_request returns for a reply body (protocol.rs:130-133), or when no
\* reply is delivered.
make_request_result(reply, delivered) ==
    IF ~delivered THEN ErrResult("channel closed")
    ELSE IF reply.kind = "Error" THEN ErrResult(reply.arg)
    ELSE OkResult(reply)

\* st.unmarshal_binary(serialized.as_slice())?: fails on bytes that are no tree
unmarshal_binary(serialized) ==
    IF serialized = "garbage" THEN ErrResult("malformed") ELSE OkResult(serialized)

\* Mutant of typed_match: any reply that is no Error is taken as the answer.
typed_match_any(method, r) ==
    IF ~r.ok THEN ErrResult(r.value)
    ELSE IF method \in SyncMethods THEN unmarshal_binary(r.value.arg)
    ELSE IF method = "get" THEN OkResult(r.value.arg)
    ELSE OkResult("unit")

\* The match on the result of make_request in each of the five methods.
typed_match(method, r) ==
    IF ~r.ok THEN ErrResult(r.value)
    ELSE IF method \in SyncMethods /\ r.value.kind = "HostStorageSyncSerializedResponse"
        THEN unmarshal_binary(r.value.arg)
    ELSE IF method = "get" /\ r.value.kind = "HostLocalStorageGetResponse"
        THEN OkResult(r.value.arg)
    ELSE IF method = "insert" /\ r.value.kind = "HostLocalStorageSetResponse"
        THEN OkResult("unit")
    ELSE ErrResult(InvalidResponse)

TypedInit ==
    /\ typed = [pc |-> "idle", method |-> "none", reply |-> NoMsg.body,
                delivered |-> FALSE, result |-> NoResult, calls |-> 0]
    /\ host_requests = << >>

\* A method is called: it builds its request and calls make_request with it.
typed_call(method) ==
    /\ typed.pc = "idle"
    /\ typed.calls < MaxTypedCalls
    /\ typed' = [pc |-> "waiting", method |-> method, reply |-> NoMsg.body,
                 delivered |-> FALSE, result |-> NoResult, calls |-> typed.calls + 1]
    /\ host_requests' = Append(host_requests, typed_request_body(method))

\* make_request returns and the method matches on what it returned.
typed_return(reply, delivered) ==
    /\ typed.pc = "waiting"
    /\ typed' = [typed EXCEPT !.pc = "idle",
                              !.reply = IF delivered THEN reply ELSE NoMsg.body,
                              !.delivered = delivered,
                              !.result = typed_match(typed.method,
                                             make_request_result(reply, delivered))]
    /\ UNCHANGED host_requests

TypedNext ==
    \/ \E method \in TypedMethods :
          /\ typed_call(method)
          /\ UNCHANGED <<protoVars, mgrVars, workerVars, extVars, storeVars, promVars, conv, config, selVars, hdrVars>>
    \/ \E reply \in TypedReplies, delivered \in BOOLEAN :
          /\ typed_return(reply, delivered)
          /\ UNCHANGED <<protoVars, mgrVars, workerVars, extVars, storeVars, promVars, conv, config, selVars, hdrVars>>

----------------------------------------------------------------------------
\* PrometheusMetricCollector::collect, called by several threads.

Threads == 1..NumThreads

\* The values the threads pass to collect: increments of a counter, a gauge.
Metrics == {[name |-> "my_counter", kind |-> "Counter", value |-> v] : v \in {1, 10}}
           \cup {[name |-> "my_gauge", kind |-> "Gauge", value |-> 42]}

MetricNames == {m.name : m \in Metrics}

\* self.metrics.read(): granted while no thread holds the write lock
rwlock_read_available(lock) == lock.writers = {}

\* Mutant of rwlock_write_available: the write lock is granted to every thread.
rwlock_write_available_always(lock) == TRUE

\* self.metrics.write(): granted while no thread holds the lock in either mode
rwlock_write_available(lock) == lock.writers = {} /\ lock.readers = {}

\* create_metric: a new Prometheus metric of the configured kind, at zero
create_metric(metric) == [name |-> metric.name, kind |-> metric.kind, value |-> 0]

\* process_metric on one Prometheus metric: counter.inc_by(value) (atomic in
\* the prometheus crate), gauge.set(value)
process_metric(metric, prometheus_metric) ==
    IF metric.kind = "Counter"
        THEN [prometheus_metric EXCEPT !.value = @ + metric.value]
        ELSE [prometheus_metric EXCEPT !.value = metric.value]

PromInit ==
    /\ metrics = [readers |-> {}, writers |-> {}, map |-> << >>]
    /\ registry = << >>
    /\ thr = [t \in Threads |-> [pc |-> "idle", metric |-> [name |-> "none"],
                                 n |-> 0, path |-> "none"]]
    /\ requested = [name \in MetricNames |-> 0]

\* collect is called and takes the read lock.
collect_begin(t, metric) ==
    /\ thr[t].pc = "idle"
    /\ thr[t].n < MaxCollects
    /\ rwlock_read_available(metrics)
    /\ metrics' = [metrics EXCEPT !.readers = @ \cup {t}]
    /\ thr' = [thr EXCEPT ![t].pc = "read", ![t].metric = metric]
    /\ requested' = [requested EXCEPT ![metric.name] =
                        IF metric.kind = "Counter" THEN @ + metric.value ELSE metric.value]
    /\ UNCHANGED registry

\* The first block: the metric is looked up under the read lock; when it is
\* there it is processed and collect returns; the read lock is dropped.
collect_read(t) ==
    /\ thr[t].pc = "read"
    /\ metrics' = [metrics EXCEPT !.readers = @ \ {t}]
    /\ IF thr[t].metric.name \in DOMAIN metrics.map
          THEN /\ registry' = [registry EXCEPT ![metrics.map[thr[t].metric.name]] =
                                  process_metric(thr[t].metric, @)]
               /\ thr' = [thr EXCEPT ![t].pc = "idle", ![t].n = @ + 1,
                                     ![t].path = "read"]
          ELSE /\ thr' = [thr EXCEPT ![t].pc = "unlocked"]
               /\ UNCHANGED registry
    /\ UNCHANGED requested

\* let mut metrics = self.metrics.write().unwrap()
collect_write_lock(t) ==
    /\ thr[t].pc = "unlocked"
    /\ rwlock_write_available(metrics)
    /\ metrics' = [metrics EXCEPT !.writers = @ \cup {t}]
    /\ thr' = [thr EXCEPT ![t].pc = "write"]
    /\ UNCHANGED <<registry, requested>>

\* The second block: the metric is looked up again under the write lock; when
\* it is still missing it is created, processed, registered and inserted; the
\* write lock is dropped.
collect_write(t) ==
    /\ thr[t].pc = "write"
    /\ IF thr[t].metric.name \in DOMAIN metrics.map
          THEN /\ registry' = [registry EXCEPT ![metrics.map[thr[t].metric.name]] =
                                  process_metric(thr[t].metric, @)]
               /\ metrics' = [metrics EXCEPT !.writers = @ \ {t}]
               /\ thr' = [thr EXCEPT ![t].pc = "idle", ![t].n = @ + 1,
                                     ![t].path = "write_found"]
          ELSE /\ registry' = Append(registry,
                                  process_metric(thr[t].metric, create_metric(thr[t].metric)))
               /\ metrics' = [metrics EXCEPT !.writers = @ \ {t},
                                             !.map = MapInsert(@, thr[t].metric.name,
                                                               Len(registry) + 1)]
               /\ thr' = [thr EXCEPT ![t].pc = "idle", ![t].n = @ + 1,
                                     ![t].path = "write_created"]
    /\ UNCHANGED requested

PromNext ==
    \/ \E t \in Threads, metric \in Metrics :
          /\ collect_begin(t, metric)
          /\ UNCHANGED <<protoVars, mgrVars, workerVars, extVars, storeVars, typedVars, conv, config, selVars, hdrVars>>
    \/ \E t \in Threads :
          /\ collect_read(t)
          /\ UNCHANGED <<protoVars, mgrVars, workerVars, extVars, storeVars, typedVars, conv, config, selVars, hdrVars>>
    \/ \E t \in Threads :
          /\ collect_write_lock(t)
          /\ UNCHANGED <<protoVars, mgrVars, workerVars, extVars, storeVars, typedVars, conv, config, selVars, hdrVars>>
    \/ \E t \in Threads :
          /\ collect_write(t)
          /\ UNCHANGED <<protoVars, mgrVars, workerVars, extVars, storeVars, typedVars, conv, config, selVars, hdrVars>>

----------------------------------------------------------------------------
\* Node and its protobuf form api::Node (common/src/node.rs).

\* An Option is a sequence of at most one value; B256 and H160 are numbers, their
\* byte vectors records of a length and the number.
Nodes ==
    [id : {1, 2}, eth_address : {<< >>, <<7>>}, entity_id : {3},
     expiration : {0, 1000000000}, addresses : {<< >>, <<"127.0.0.1:42">>},
     certificate : {"", "der"}, registration_time : {0, 42},
     runtimes : {<< >>, <<[id |-> 5, capabilities |-> [tee |-> << >>]]>>}]

\* Node::default()
DefaultNode ==
    [id |-> 0, eth_address |-> << >>, entity_id |-> 0, expiration |-> 0,
     addresses |-> << >>, certificate |-> "", registration_time |-> 0,
     runtimes |-> << >>]

\* B256::to_vec / H160::to_vec, and an unset bytes field of the protobuf
Bytes(len, value) == [len |-> len, value |-> value]

\* impl Into<api::Node> for Node
Node_into(node) ==
    [id |-> Bytes(32, node.id),
     eth_address |-> IF node.eth_address # << >>
                        THEN Bytes(20, node.eth_address[1]) ELSE Bytes(0, 0),
     entity_id |-> Bytes(32, node.entity_id),
     expiration |-> node.expiration,
     addresses |-> [i \in DOMAIN node.addresses |-> [api |-> node.addresses[i]]],
     certificate |-> [der |-> node.certificate],
     registration_time |-> node.registration_time]

\* impl TryFrom<api::Node> for Node
Node_try_from(node) ==
    IF node.id.len # 32 \/ node.entity_id.len # 32
        THEN ErrResult("invalid length")
        ELSE OkResult(
            [id |-> node.id.value,
             eth_address |-> IF node.eth_address.len = 20
                                THEN <<node.eth_address.value>> ELSE << >>,
             entity_id |-> node.entity_id.value,
             expiration |-> node.expiration,
             addresses |-> [i \in DOMAIN node.addresses |-> node.addresses[i].api],
             certificate |-> node.certificate.der,
             registration_time |-> node.registration_time,
             runtimes |-> << >>])

ConvInit ==
    conv = [pc |-> "idle", original |-> DefaultNode,
            intermediate |-> Node_into(DefaultNode), converted |-> NoResult]

\* let intermediate: api::Node = original.clone().into()
node_into(original) ==
    /\ conv.pc = "idle"
    /\ conv' = [pc |-> "api", original |-> original,
                intermediate |-> Node_into(original), converted |-> NoResult]
    /\ UNCHANGED <<config, selVars, hdrVars>>

\* let converted = Node::try_from(intermediate)
node_try_from ==
    /\ conv.pc = "api"
    /\ conv' = [conv EXCEPT !.pc = "done",
                            !.converted = Node_try_from(conv.intermediate)]
    /\ UNCHANGED <<config, selVars, hdrVars>>

NodeNext ==
    \/ \E original \in Nodes \cup {DefaultNode} :
          /\ node_into(original)
          /\ UNCHANGED <<protoVars, mgrVars, workerVars, extVars, storeVars, typedVars,
                         promVars, selVars, hdrVars>>
    \/ /\ node_try_from
       /\ UNCHANGED <<protoVars, mgrVars, workerVars, extVars, storeVars, typedVars,
                      promVars, selVars, hdrVars>>

----------------------------------------------------------------------------
\* The worker configuration main builds from its command line (compute/src/main.rs).

\* The options of the command line that the worker configuration is built from,
\* each absent or given with a value; flags are given with the empty value.
CommandLines ==
    [forwarded_rpc_timeout : {<< >>, <<"0">>, <<"30">>, <<"3600">>},
     no_persist_identity : {<< >>, <<"">>},
     identity_file : {<< >>, <<"id.pb">>},
     disable_key_manager : {<< >>, <<"">>},
     key_manager_port : {<< >>, <<"9100">>}]

OptionNames ==
    [forwarded_rpc_timeout |-> "forwarded-rpc-timeout",
     no_persist_identity |-> "no-persist-identity",
     identity_file |-> "identity-file",
     disable_key_manager |-> "disable-key-manager",
     key_manager_port |-> "key-manager-port"]

\* App::get_matches: the options that were given, by name, with their values
get_matches(line) ==
    LET given == {f \in DOMAIN line : line[f] # << >>}
    IN  [name \in {OptionNames[f] : f \in given} |->
            line[CHOOSE f \in given : OptionNames[f] = name][1]]

\* matches.is_present(name)
is_present(matches, name) == name \in DOMAIN matches

\* value_t!(matches, name, u64): the decimal number the value spells
value_t(matches, name) ==
    CASE matches[name] = "0" -> 0
      [] matches[name] = "30" -> 30
      [] matches[name] = "3600" -> 3600
      [] matches[name] = "9100" -> 9100

\* The WorkerConfiguration expression of main (key-manager host and certificate
\* are left out).
WorkerConfiguration(matches) ==
    [saved_identity_path |->
        IF is_present(matches, "no-persist-identity") THEN << >>
        ELSE IF is_present(matches, "identity-file") THEN <<matches["identity-file"]>>
        ELSE <<"identity.pb">>,
     forwarded_rpc_timeout |->
        IF is_present(matches, "rpc-timeout")
            THEN <<[secs |-> value_t(matches, "forwarded-rpc-timeout"), nanos |-> 0]>>
            ELSE << >>,
     key_manager |->
        IF ~is_present(matches, "disable-key-manager")
            THEN <<[port |-> IF is_present(matches, "key-manager-port")
                                THEN value_t(matches, "key-manager-port") ELSE 9003]>>
            ELSE << >>]

ConfigInit ==
    config = [pc |-> "start", matches |-> << >>, worker |-> WorkerConfiguration(<< >>)]

\* main up to get_matches
main_get_matches(line) ==
    /\ config.pc = "start"
    /\ config' = [config EXCEPT !.pc = "parsed", !.matches = get_matches(line)]
    /\ UNCHANGED <<conv, selVars, hdrVars>>

\* main from get_matches on: the configuration of the worker
main_configure ==
    /\ config.pc = "parsed"
    /\ config' = [config EXCEPT !.pc = "configured",
                                !.worker = WorkerConfiguration(config.matches)]
    /\ UNCHANGED <<conv, selVars, hdrVars>>

ConfigNext ==
    \/ \E line \in CommandLines :
          /\ main_get_matches(line)
          /\ UNCHANGED <<protoVars, mgrVars, workerVars, extVars, storeVars, typedVars,
                         promVars, selVars, hdrVars>>
    \/ /\ main_configure
       /\ UNCHANGED <<protoVars, mgrVars, workerVars, extVars, storeVars, typedVars,
                      promVars, selVars, hdrVars>>

----------------------------------------------------------------------------
\* SelectAll: a set of streams polled as one stream.

\* What a stream has to yield, in order, before it ends: items and errors.
StreamScripts == {<< >>, <<"a">>, <<"a", "b">>, <<"err", "a">>, <<"a", "err">>}

\* Mutant of push_remaining: the rest of the stream is not put back.
push_remaining_dropped(inner, s, remaining) == MapRemove(inner, s)

\* self.push(remaining): the rest of the stream is in the set again
push_remaining(inner, s, remaining) == MapInsert(inner, s, remaining)

\* SelectAll::poll. inner.poll() hands out the outcome of the stream future at
\* the head of the ready queue: NotReady when none is ready, Ready(None) when
\* the set is empty; an item is returned and the rest of its stream pushed; a
\* stream that has ended is dropped and the loop goes on; an error is returned
\* and its stream dropped with it.
RECURSIVE SelectAll_poll(_, _)
SelectAll_poll(inner, queue) ==
    IF DOMAIN inner = {}
        THEN [ret |-> "Ready(None)", item |-> "", from |-> 0, inner |-> inner,
              queue |-> queue]
    ELSE IF queue = << >>
        THEN [ret |-> "NotReady", item |-> "", from |-> 0, inner |-> inner,
              queue |-> queue]
    ELSE LET s == Head(queue)
         IN  IF inner[s] = << >>
                 THEN SelectAll_poll(MapRemove(inner, s), Tail(queue))
             ELSE IF Head(inner[s]) = "err"
                 THEN [ret |-> "Err", item |-> "", from |-> s,
                       inner |-> MapRemove(inner, s), queue |-> Tail(queue)]
             ELSE [ret |-> "Ready(Some)", item |-> Head(inner[s]), from |-> s,
                   inner |-> push_remaining(inner, s, Tail(inner[s])),
                   queue |-> Tail(queue)]

\* SelectAll::new
SelectInit ==
    /\ select_all = [inner |-> << >>, queue |-> << >>, last |-> "none"]
    /\ pushed = << >>
    /\ yielded = << >>

\* SelectAll::push(stream) (select_all(streams) is new and a push of each)
SelectAll_push(stream) ==
    /\ Len(pushed) < MaxStreams
    /\ pushed' = Append(pushed, stream)
    /\ select_all' = [inner |-> MapInsert(select_all.inner, Len(pushed) + 1, stream),
                      queue |-> select_all.queue, last |-> "none"]
    /\ UNCHANGED yielded

\* A stream of the set has its next item, its error or its end at hand and
\* notifies the task: its future joins the ready queue.
stream_notify(s) ==
    /\ s \in DOMAIN select_all.inner
    /\ \A i \in DOMAIN select_all.queue : select_all.queue[i] # s
    /\ select_all' = [select_all EXCEPT !.queue = Append(@, s)]
    /\ UNCHANGED <<pushed, yielded>>

\* One call of SelectAll::poll.
stream_poll ==
    LET r == SelectAll_poll(select_all.inner, select_all.queue)
    IN  /\ select_all' = [inner |-> r.inner, queue |-> r.queue, last |-> r.ret]
        /\ yielded' = IF r.ret = "Ready(Some)"
                         THEN Append(yielded, [from |-> r.from, item |-> r.item])
                         ELSE yielded
        /\ UNCHANGED pushed

SelectNext ==
    \/ \E stream \in StreamScripts :
          /\ SelectAll_push(stream)
          /\ UNCHANGED <<protoVars, mgrVars, workerVars, extVars, storeVars, typedVars,
                         promVars, conv, config, hdrVars>>
    \/ \E s \in 1..MaxStreams :
          /\ stream_notify(s)
          /\ UNCHANGED <<protoVars, mgrVars, workerVars, extVars, storeVars, typedVars,
                         promVars, conv, config, hdrVars>>
    \/ /\ stream_poll
       /\ UNCHANGED <<protoVars, mgrVars, workerVars, extVars, storeVars, typedVars,
                      promVars, conv, config, hdrVars>>

----------------------------------------------------------------------------
\* Block headers (consensus/base/src/header.rs).

\* struct Header: the round, the hash of the previous block and the state root;
\* the version, the namespace and the other hashes are left at their defaults.
Header(round, previous_hash, state_root) ==
    [round |-> round, previous_hash |-> previous_hash, state_root |-> state_root]

\* Header::default()
DefaultHeader == Header(0, 0, 0)

\* EncodedHash::get_encoded_hash: the digest of the encoded header, here a
\* function of every field into 1..251 (0 is the empty H256).
get_encoded_hash(header) ==
    1 + ((7 + 31 * header.round + 37 * header.state_root + 41 * header.previous_hash) % 251)

\* self.previous_hash == child.get_encoded_hash()
is_parent_of(self, child) == self.previous_hash = get_encoded_hash(child)

HeaderInit ==
    /\ headers = {}
    /\ parent_check = [called |-> FALSE, self |-> DefaultHeader, child |-> DefaultHeader,
                       result |-> FALSE]

\* Header { round, previous_hash, state_root, .. }: a first header, with the
\* empty hash for its previous block.
Header_first(state_root) ==
    /\ Cardinality(headers) < MaxHeaders
    /\ headers' = headers \cup {Header(0, 0, state_root)}
    /\ UNCHANGED parent_check

\* Header { round, previous_hash, state_root, .. }: the header of the block that
\* follows the block of parent.
Header_next(parent, state_root) ==
    /\ Cardinality(headers) < MaxHeaders
    /\ parent \in headers
    /\ parent.round < MaxRound
    /\ headers' = headers \cup {Header(parent.round + 1, get_encoded_hash(parent), state_root)}
    /\ UNCHANGED parent_check

\* self.is_parent_of(&child)
Header_is_parent_of(self, child) ==
    /\ self \in headers
    /\ child \in headers
    /\ parent_check' = [called |-> TRUE, self |-> self, child |-> child,
                        result |-> is_parent_of(self, child)]
    /\ UNCHANGED headers

HeaderNext ==
    \/ \E state_root \in {0, 1} :
          /\ Header_first(state_root)
          /\ UNCHANGED <<protoVars, mgrVars, workerVars, extVars, storeVars, typedVars,
                         promVars, conv, config, selVars>>
    \/ \E parent \in headers, state_root \in {0, 1} :
          /\ Header_next(parent, state_root)
          /\ UNCHANGED <<protoVars, mgrVars, workerVars, extVars, storeVars, typedVars,
                         promVars, conv, config, selVars>>
    \/ \E self \in headers, child \in headers :
          /\ Header_is_parent_of(self, child)
          /\ UNCHANGED <<protoVars, mgrVars, workerVars, extVars, storeVars, typedVars,
                         promVars, conv, config, selVars>>

LibInit ==
    StoreInit /\ TypedInit /\ PromInit /\ ConvInit /\ ConfigInit /\ SelectInit /\ HeaderInit

----------------------------------------------------------------------------
\* Specifications of the worker-host protocol.

Init == ProtocolInit /\ ManagerInit /\ WorkerInit /\ ExtInit /\ LibInit

\* The multiplexer: concurrent make_request calls against a host that answers
\* with any Response (or KeepAlive) frames in any order.
MuxNext ==
    \/ \E k \in Calls : make_request_alloc(k) /\ UNCHANGED <<mgrVars, workerVars, extVars, libVars>>
    \/ \E k \in Calls : make_request_register(k) /\ UNCHANGED <<mgrVars, workerVars, extVars, libVars>>
    \/ \E k \in Calls : make_request_send(k) /\ UNCHANGED <<mgrVars, workerVars, extVars, libVars>>
    \/ \E k \in Calls : make_request_recv(k) /\ UNCHANGED <<mgrVars, workerVars, extVars, libVars>>
    \/ \E m \in ResponseFrames \cup KeepAliveFrames :
          n_in < MaxInbound /\ handle_message(m) /\ UNCHANGED <<mgrVars, workerVars, extVars, libVars>>
    \/ reader_stop /\ UNCHANGED <<mgrVars, workerVars, extVars, libVars>>
    \/ stream_close /\ UNCHANGED <<mgrVars, workerVars, extVars, libVars>>

\* The multiplexer does not depend on the build: the non-SGX build is taken.
MuxInit == Init /\ ~sgx

SpecMux == MuxInit /\ [][MuxNext]_vars

\* The request side: the host sends Request frames.
ReqNext ==
    \/ \E m \in RequestFrames :
          n_in < MaxRequests /\ handle_message(m) /\ UNCHANGED <<mgrVars, workerVars, extVars, libVars>>
    \/ reader_stop /\ UNCHANGED <<mgrVars, workerVars, extVars, libVars>>
    \/ stream_close /\ UNCHANGED <<mgrVars, workerVars, extVars, libVars>>

SpecReq == Init /\ [][ReqNext]_vars

\* The runtime client manager.  The build of the worker is of no concern here.
MgrInit == Init /\ ~sgx

SpecMgr == MgrInit /\ [][MgrNext]_vars

\* The contract worker.
WorkerSpecInit == Init /\ ~sgx

SpecWorker == WorkerSpecInit /\ [][WorkerNext]_vars

----------------------------------------------------------------------------
\* Properties of the multiplexer (SpecMux).

\* A call is pending from the insertion of its channel until it returns.
Pending(k) == pc[k] \in {"registered", "waiting"}

\* C1: correlation. Every body a make_request call holds in its channel or has
\* returned (as Ok(body), or as Err(message) for an Error body) was carried by a
\* Response whose id is the id allocated to that call, whatever the number of
\* outstanding calls and the order of the host's replies.
C1_Correlation ==
    \A k \in Calls :
        /\ chan[k] # NoMsg => chan[k].id = req_id[k] /\ chan[k].message_type = "Response"
        /\ ret[k].tag \in {"ok", "err_body"} =>
              /\ ret[k].from = req_id[k]
              /\ ret[k].body = chan[k].body

\* Calls 1 and 2 were outstanding with ids 0 and 1, the host answered id 1 first
\* and id 0 last, and both calls have returned their own Ok body.
C1_Witness ==
    /\ req_id[1] = 0 /\ req_id[2] = 1
    /\ ret[1].tag = "ok" /\ ret[2].tag = "ok"
    /\ ret[1].from = 0 /\ ret[2].from = 1
    /\ n_in = 2
    /\ last_handled.outcome = "delivered" /\ last_handled.to = 1

\* C2: a Response is delivered to at most one waiter. Handling a Response with a
\* pending id removes exactly that entry and touches no channel but the one of
\* the removed Sender, which receives at most this one body; handling a Response
\* whose id has no pending entry (a repeated id included) delivers nothing,
\* leaves the pending map unchanged, writes nothing, and is logged as unknown.
C2_Handled(m) ==
    IF m.id \in DOMAIN pending_out_requests
        THEN LET k == pending_out_requests[m.id]
             IN  /\ DOMAIN pending_out_requests' = DOMAIN pending_out_requests \ {m.id}
                 /\ \A i \in DOMAIN pending_out_requests' :
                       pending_out_requests'[i] = pending_out_requests[i]
                 /\ \A j \in Calls \ {k} : chan'[j] = chan[j]
                 /\ chan'[k] # chan[k] => chan[k] = NoMsg /\ chan'[k] = m
                 /\ last_handled'.to = k
                 /\ last_handled'.outcome \in {"delivered", "deliver_failed"}
        ELSE /\ pending_out_requests' = pending_out_requests
             /\ chan' = chan
             /\ last_handled'.outcome = "unknown_request"
             /\ last_handled'.to = NoCall

C2_AtMostOneWaiter ==
    [][ /\ (n_in' # n_in /\ last_handled'.frame.message_type = "Response") =>
              /\ C2_Handled(last_handled'.frame)
              /\ UNCHANGED <<wire, dispatcher_queue, pc, ret>>
        /\ \A k \in Calls : chan[k] # NoMsg => chan'[k] = chan[k]
      ]_vars

\* The host sent the same Response id twice: the first was delivered to the
\* waiting call, the second found no pending entry.
C2_Witness ==
    /\ n_in = 2
    /\ last_handled.outcome = "unknown_request"
    /\ \E k \in Calls : chan[k] # NoMsg /\ chan[k].id = last_handled.frame.id

\* C3 (as claimed): ids are handed out in strictly increasing order and no two
\* simultaneously pending requests share an id.
C3_UniqueMonotonicIds ==
    /\ \A i, j \in DOMAIN allocated : i < j => allocated[i] < allocated[j]
    /\ \A k1, k2 \in Calls :
          (k1 # k2 /\ Pending(k1) /\ Pending(k2)) => req_id[k1] # req_id[k2]

----------------------------------------------------------------------------
\* Properties of the request side (SpecReq).

IsRuntimeRequest(m) == m.message_type = "Request" /\ m.body.kind \in RuntimeRequestKinds

----------------------------------------------------------------------------
\* Properties of the runtime client manager (SpecMgr).

\* C5: retry policy of RuntimeClientManager::call. An attempt is followed by
\* another attempt only if it failed with the transition-shutdown message, and
\* then by exactly one: a call makes at most two attempts, a first attempt that
\* failed with that message is always retried, and an attempt that succeeded or
\* failed with any other error ends the call with exactly that result.
C5_RetryOnlyOnTransitionOnce ==
    \A c \in MCalls :
        LET o == mcall[c].outcomes
            n == Len(o)
        IN  /\ n <= 2
            /\ Len(mcall[c].dispatches) <= 2
            /\ \A i \in 1..(n - 1) : o[i] = "transition"
            /\ (n >= 1 /\ o[n] # "transition") =>
                  mcall[c].pc = "done" /\ mcall[c].result = o[n]
            /\ (n = 1 /\ o[1] = "transition") =>
                  mcall[c].pc # "done" /\ mcall[c].result = "none"
            /\ n = 2 => mcall[c].pc = "done" /\ mcall[c].result = o[2]
            /\ mcall[c].pc = "done" => n >= 1 /\ mcall[c].result = o[n]

\* One call failed with another error and was not retried, while another call
\* failed with the transition message, was retried once and then succeeded.
C5_Witness ==
    \E c, d \in MCalls :
        /\ mcall[c].pc = "done" /\ mcall[c].outcomes = <<"other error">>
        /\ mcall[d].pc = "done" /\ mcall[d].outcomes = <<"transition", "ok">>

\* C6: leader changes during a call. An attempt on a client that has been shut
\* down fails with the transition message; the retry that follows is dispatched
\* to the leader installed at that moment, a client other than the one of the
\* first attempt and not shut down; after a second transition failure no third
\* attempt is made and the caller gets the transition error.
C6_Inv ==
    \A c \in MCalls :
        LET d == mcall[c].dispatches
            o == mcall[c].outcomes
        IN  /\ Len(d) <= 2
            /\ Len(d) = 2 =>
                  /\ o[1] = "transition"
                  /\ d[2].via = "slot"
                  /\ d[2].client = d[2].slot
                  /\ d[2].client # d[1].client
                  /\ client_shutdown[d[1].client] = 1
            /\ (Len(o) = 2 /\ o[2] = "transition") =>
                  /\ mcall[c].pc = "done"
                  /\ mcall[c].result = "transition"
                  /\ client_shutdown[d[2].client] = 1

C6_Step ==
    \A c \in MCalls :
        /\ (mcall[c].pc = "inflight" /\ mcall'[c].pc # "inflight"
              /\ client_shutdown[mcall[c].target] > 0) =>
              mcall'[c].outcomes[Len(mcall'[c].outcomes)] = "transition"
        /\ (Len(mcall'[c].dispatches) = 2 /\ Len(mcall[c].dispatches) = 1) =>
              /\ mcall'[c].target = leader
              /\ client_shutdown[leader] = 0

C6_LeaderChangeDuringCall == []C6_Inv /\ [][C6_Step]_vars

\* The leader changed twice during one call: both attempts failed with the
\* transition message, on two different clients, and the caller got that error.
C6_Witness ==
    \E c \in MCalls :
        /\ mcall[c].pc = "done"
        /\ mcall[c].outcomes = <<"transition", "transition">>
        /\ mcall[c].result = "transition"
        /\ mcall[c].dispatches[1].via = "slot"
        /\ mcall[c].dispatches[1].client = 1
        /\ mcall[c].dispatches[2].client = 2
        /\ leader = 3

\* C7: swap of the leader. A step that changes the leader slot is the completed
\* handling of a committee whose Leader is not the installed one: it stores a new
\* client for that node and, if there was a leader, calls shutdown on exactly
\* that client, once. No client is shut down in any other step, none twice, the
\* installed client is never a shut down one, and every call_leader that reads
\* the slot is dispatched to the client installed at that moment.
C7_Inv ==
    /\ \A cl \in DOMAIN client_shutdown : client_shutdown[cl] <= 1
    /\ leader # NoClient => client_shutdown[leader] = 0
    /\ \A cl \in DOMAIN client_shutdown : cl # leader /\ cl < Len(client_node) =>
          client_shutdown[cl] = 1

C7_Step ==
    /\ leader' # leader =>
          /\ follower.pc = "get_node"
          /\ leader' = Len(client_node) + 1
          /\ client_node' = Append(client_node, follower.new_leader)
          /\ leader # NoClient =>
                /\ client_node[leader] # follower.new_leader
                /\ client_shutdown[leader] = 0
                /\ client_shutdown'[leader] = 1
          /\ \A cl \in DOMAIN client_shutdown \ {leader} :
                client_shutdown'[cl] = client_shutdown[cl]
    /\ (\E cl \in DOMAIN client_shutdown : client_shutdown'[cl] # client_shutdown[cl]) =>
          leader' # leader /\ leader' # NoClient
    /\ \A c \in MCalls :
          (mcall[c].pc = "ready" /\ mcall'[c].pc = "inflight") =>
              mcall'[c].target = leader /\ leader # NoClient

C7_LeaderSwap == []C7_Inv /\ [][C7_Step]_vars

\* Leader n1 was replaced by n2: client 1 was shut down once, client 2 is
\* installed, and a call issued after the swap was dispatched to client 2.
C7_Witness ==
    /\ Len(client_node) = 2
    /\ client_node[1] = "n1" /\ client_node[2] = "n2"
    /\ leader = 2
    /\ client_shutdown = <<1, 0>>
    /\ \E c \in MCalls :
          /\ mcall[c].pc = "inflight"
          /\ mcall[c].dispatches = <<[client |-> 2, via |-> "slot", slot |-> 2]>>

\* C8: calls issued before the first leader. Such a call waits and has no
\* result; the one-shot is fired exactly in the step that takes the leader slot
\* from None to Some, with the leader installed by that step, and never again;
\* once it has fired every waiting call can be dispatched, and a call that went
\* through the one-shot was dispatched to its value.
C8_Inv ==
    /\ (future_leader = NoClient) = (leader = NoClient)
    /\ leader_notify = (future_leader = NoClient)
    /\ future_leader # NoClient => future_leader = 1
    /\ \A c \in MCalls :
          /\ mcall[c].pc = "wait" =>
                /\ mcall[c].result = "none"
                /\ mcall[c].outcomes = << >>
                /\ (future_leader # NoClient /\ ~exited) => ENABLED waiter_dispatch(c)
          /\ \A i \in DOMAIN mcall[c].dispatches :
                mcall[c].dispatches[i].via = "oneshot" =>
                    i = 1 /\ mcall[c].dispatches[i].client = future_leader

C8_Step ==
    /\ (future_leader' # future_leader) = (leader = NoClient /\ leader' # NoClient)
    /\ future_leader' # future_leader =>
          future_leader = NoClient /\ future_leader' = leader'
    /\ \A c \in MCalls :
          (mcall[c].pc = "ready" /\ mcall'[c].pc = "wait") => leader = NoClient

C8_WaitForFirstLeader == []C8_Inv /\ [][C8_Step]_vars

\* Both calls were issued before any committee, waited, and were dispatched to
\* the first leader after it had been installed.
C8_Witness ==
    /\ future_leader = 1
    /\ \A c \in MCalls :
          /\ mcall[c].pc = "inflight"
          /\ mcall[c].dispatches = <<[client |-> 1, via |-> "oneshot", slot |-> 1]>>

\* C4 (as claimed): a batch whose sender received the Err of with_storage or the
\* Err of contract_call_batch has had no commit invoked on its batch storage.
C4_NoCommitOnBatchError ==
    \A id \in DOMAIN results :
        (/\ id \in {handled[i] : i \in DOMAIN handled}
         /\ ~results[id].ok
         /\ results[id].value \in {"storage context error", "batch error"}) =>
            \A i \in DOMAIN commit_log : commit_log[i].id # id

\* C9 (as claimed): a committee without a Leader is a transient error: after it
\* the process has not exited, the follower still takes committees, and the
\* installed leader is the one from before.
C9_MissingLeaderIsTransient ==
    follower.last = "missing_leader" =>
        /\ ~exited
        /\ follower.pc = "idle"

----------------------------------------------------------------------------
\* More properties of the multiplexer (SpecMux).

\* C17: result of make_request. A call whose frame was written and that returned
\* after a Response body had been delivered to its channel returned Err carrying
\* the message if the body is Body::Error{message}, and Ok(body) with the
\* delivered body unchanged for any other body; and a call returns these two
\* results in no other case.
C17_ErrorBodyIsFailure ==
    \A k \in Calls :
        /\ (pc[k] = "returned" /\ chan[k] # NoMsg /\ ret[k].tag # "err_io") =>
              IF chan[k].body.kind = "Error"
                  THEN /\ ret[k].tag = "err_body"
                       /\ ret[k].body.arg = chan[k].body.arg
                  ELSE /\ ret[k].tag = "ok"
                       /\ ret[k].body = chan[k].body
        /\ ret[k].tag \in {"ok", "err_body"} => pc[k] = "returned" /\ chan[k] # NoMsg
        /\ ret[k].tag = "err_body" => ret[k].body.kind = "Error"
        /\ ret[k].tag = "ok" => ret[k].body.kind # "Error"

\* One call returned Err("host error") for an Error body and another returned Ok
\* with the HostLocalStorageGetResponse body it had been sent.
C17_Witness ==
    \E k1, k2 \in Calls :
        /\ ret[k1].tag = "err_body" /\ ret[k1].body.arg = "host error"
        /\ ret[k2].tag = "ok" /\ ret[k2].body = Body("HostLocalStorageGetResponse", "v")

\* C14 (as claimed): every entry of pending_out_requests belongs to a call that
\* is still waiting for its response under that id, so that no entry is left
\* once the call has returned.
C14_PendingLifecycle ==
    \A i \in DOMAIN pending_out_requests :
        LET k == pending_out_requests[i]
        IN  Pending(k) /\ req_id[k] = i

\* Fairness of the threads inside make_request: a thread that can take its next
\* step (insert its entry, write its frame, return from recv) takes it.
CallStep(k) ==
    /\ make_request_register(k) \/ make_request_send(k) \/ make_request_recv(k)
    /\ UNCHANGED <<mgrVars, workerVars, extVars, libVars>>

MuxFairness == \A k \in Calls : WF_vars(CallStep(k))

SpecMuxLive == MuxInit /\ [][MuxNext]_vars /\ MuxFairness

\* C15 (as claimed): once the reader loop has terminated, eventually no
\* make_request call is suspended in rx.recv(), its entry pending.
C15_StreamCloseReleasesCallers ==
    (~reader_running) ~> (\A k \in Calls : pc[k] # "waiting")

----------------------------------------------------------------------------
\* More properties of the contract worker (SpecWorker).

\* C20: order of the commands. The worker has taken the commands in the order in
\* which they were enqueued, without skipping any: the commands handled so far
\* are the first ones sent, the others are still queued in send order; and the
\* result of every command taken has been sent, while no command still queued
\* has a result, so that the results are produced in send order, one at a time.
C20_CommandsInOrder ==
    /\ \A i \in DOMAIN handled : handled[i] = i
    /\ \A i \in DOMAIN command_queue : command_queue[i].id = Len(handled) + i
    /\ Len(handled) + Len(command_queue) = n_commands
    /\ \A id \in DOMAIN results :
          (results[id].ok \/ results[id].value # "none") = (id <= Len(handled))

\* An RpcCall was sent before a ContractCallBatch; the worker has answered the
\* RpcCall and the batch is still queued without a result.
C20_Witness ==
    /\ n_commands = 2
    /\ handled = <<1>>
    /\ results[1].ok
    /\ ~results[2].ok /\ results[2].value = "none"
    /\ Len(command_queue) = 1
    /\ command_queue[1].type = "ContractCallBatch"

----------------------------------------------------------------------------
\* The reader loop on raw frames, and make_request with cancellable contexts.

FrameNext ==
    \E frame \in RawFrames :
        /\ n_in < MaxFrames
        /\ start_iteration(frame)
        /\ UNCHANGED <<mgrVars, workerVars, cancelled, codec, wireVars, libVars>>

SpecFrame == Init /\ [][FrameNext]_vars

CancelNext ==
    \/ \E k \in Calls : make_request_alloc(k) /\ UNCHANGED <<mgrVars, workerVars, extVars, libVars>>
    \/ \E k \in Calls : make_request_register(k) /\ UNCHANGED <<mgrVars, workerVars, extVars, libVars>>
    \/ \E k \in Calls : make_request_send(k) /\ UNCHANGED <<mgrVars, workerVars, extVars, libVars>>
    \/ \E k \in Calls : make_request_recv(k) /\ UNCHANGED <<mgrVars, workerVars, extVars, libVars>>
    \/ \E k \in Calls : cancel(k) /\ UNCHANGED <<mgrVars, workerVars, libVars>>
    \/ \E m \in ResponseFrames :
          n_in < MaxInbound /\ handle_message(m) /\ UNCHANGED <<mgrVars, workerVars, extVars, libVars>>

SpecCancel == MuxInit /\ [][CancelNext]_vars

\* C16 (as claimed): a call whose context was cancelled while its request was
\* outstanding is delivered no response: a Response for its id that arrives
\* afterwards reaches nobody, and the call does not return a response.
C16_CancelAbandonsResponse ==
    \A k \in Calls :
        cancelled[k] => chan[k] = NoMsg /\ ret[k].tag \notin {"ok", "err_body"}

----------------------------------------------------------------------------
\* Properties of the reader loop on raw frames (SpecFrame).

\* C11: the size limit of decode_message. A frame whose length prefix exceeds
\* 104,857,600 is rejected with MessageTooLarge after the four bytes of the prefix
\* and no byte of the payload have been read, and the reader loop is over; no
\* other frame is rejected as too large, and a frame of exactly 104,857,600 bytes
\* is read whole and handled. Once the loop is over, no frame is processed.
C11_Inv ==
    /\ rd.length > 104857600 =>
          /\ rd.error = "message too large"
          /\ rd.payload_read = 0
          /\ last_handled.outcome = "decode_error"
          /\ ~reader_running
    /\ rd.error = "message too large" => rd.length > 104857600
    /\ rd.length = 104857600 =>
          /\ rd.error = "none"
          /\ rd.payload_read = 104857600
          /\ last_handled.frame.body = Body(BlobKind, "blob_fit")
          /\ last_handled.outcome \in {"queued", "responded"}
          /\ reader_running

C11_Step ==
    /\ (n_in' # n_in /\ rd'.length > 104857600) => rd'.consumed = rd.consumed + 4
    /\ ~reader_running =>
          UNCHANGED <<rd, n_in, last_handled, wire, dispatcher_queue, reader_running>>

C11_TooLargeFrame == []C11_Inv /\ [][C11_Step]_vars

\* A frame of exactly the maximum size was handled, and then a frame one byte
\* larger was rejected after its prefix had been read.
C11_Witness ==
    /\ n_in = 2
    /\ rd.frame.prefix = <<6, 64, 0, 1>>
    /\ rd.consumed = 4 + 104857600 + 4
    /\ rd.error = "message too large"
    /\ ~reader_running

\* C12: a request the worker does not support, WorkerShutdownRequest and
\* WorkerAbortRequest and any body handle_request has no arm for (in a non-SGX
\* build the RAK requests too), is answered with a Response of the same id whose
\* body is Error "method not supported", and the reader loop is still running.
C12_Unsupported(kind) ==
    \/ kind \in {"WorkerShutdownRequest", "WorkerAbortRequest", "HostRPCCallRequest",
                 "Empty"}
    \/ ~sgx /\ kind = "WorkerCapabilityTEERakInitRequest"

C12_MethodNotSupportedKeepsLoop ==
    (/\ last_handled.frame.message_type = "Request"
     /\ C12_Unsupported(last_handled.frame.body.kind)) =>
        /\ last_handled.outcome = "responded"
        /\ wire # << >>
        /\ wire[Len(wire)] = Message(last_handled.frame.id, "Response",
                                     Body("Error", "method not supported"))
        /\ reader_running
        /\ stream_ok

\* A WorkerShutdownRequest was refused, and the WorkerPingRequest after it was
\* answered.
C12_Witness ==
    /\ wire = <<Message(0, "Response", Body("Error", "method not supported")),
                Message(1, "Response", Body("Empty", ""))>>
    /\ n_in = 2
    /\ reader_running

\* C13: a frame whose payload is no CBOR message, or whose message type is none
\* of Request (1), Response (2) and KeepAlive (3), or that the stream cuts short,
\* ends the reader loop without being handled; a well-formed frame of one of the
\* three types does not; and once the loop is over no frame is processed.
C13_BadFrame(frame) ==
    \/ ~frame.payload.well_formed
    \/ frame.payload.message_type \notin {1, 2, 3}

C13_Inv ==
    /\ (rd.frame # NoFrame /\ C13_BadFrame(rd.frame)) =>
          /\ ~reader_running
          /\ last_handled.outcome = "decode_error"
    /\ (rd.frame # NoFrame /\ ~C13_BadFrame(rd.frame) /\ rd.length <= 104857600) =>
          /\ reader_running
          /\ last_handled.outcome # "decode_error"
          /\ last_handled.frame.id = rd.frame.payload.id

C13_Step ==
    /\ (n_in' # n_in /\ C13_BadFrame(rd'.frame)) =>
          UNCHANGED <<wire, dispatcher_queue, pending_out_requests, chan, rak_avr>>
    /\ ~reader_running =>
          UNCHANGED <<rd, n_in, last_handled, wire, dispatcher_queue, reader_running,
                      pending_out_requests, chan>>

C13_MalformedFrameEndsLoop == []C13_Inv /\ [][C13_Step]_vars

\* A KeepAlive frame was read and the loop went on; then a well-formed CBOR
\* message with message type 4 ended it.
C13_Witness ==
    /\ n_in = 2
    /\ rd.frame.payload.well_formed
    /\ rd.frame.payload.message_type = 4
    /\ rd.error = "invalid message type"
    /\ rd.consumed > 8 + rd.length
    /\ wire = << >>
    /\ ~reader_running

----------------------------------------------------------------------------
\* The codec on one message (SpecCodec) and the concurrent senders (SpecWire).

CodecNext ==
    \/ \E message \in CodecMessages :
          codec_encode(message) /\ UNCHANGED <<protoVars, mgrVars, workerVars, libVars>>
    \/ \E id \in CodecIds, body \in CodecBodies :
          send_response(id, body) /\ UNCHANGED <<protoVars, mgrVars, workerVars, libVars>>
    \/ codec_decode /\ UNCHANGED <<protoVars, mgrVars, workerVars, libVars>>

SpecCodec == Init /\ [][CodecNext]_vars

WireNext ==
    \/ \E w \in Writers, big \in BOOLEAN :
          /\ Len(lock_order) < MaxWrites
          /\ writer_lock(w, big)
          /\ UNCHANGED <<protoVars, mgrVars, workerVars, libVars>>
    \/ \E w \in Writers : writer_write_u32(w) /\ UNCHANGED <<protoVars, mgrVars, workerVars, libVars>>
    \/ \E w \in Writers : writer_write_all(w) /\ UNCHANGED <<protoVars, mgrVars, workerVars, libVars>>
    \/ \E w \in Writers : writer_write_rest(w) /\ UNCHANGED <<protoVars, mgrVars, workerVars, libVars>>
    \/ \E w \in Writers : writer_return(w) /\ UNCHANGED <<protoVars, mgrVars, workerVars, libVars>>

SpecWire == MuxInit /\ [][WireNext]_vars

\* C18: frames of concurrent senders do not interleave. The writes on the stream
\* are, frame after frame in the order in which the senders took the outgoing
\* mutex, the prefix of each frame followed by its own payload; only the frame of
\* the sender holding the mutex may be incomplete, and when no sender holds the
\* mutex every frame is whole.
RECURSIVE C18_Concat(_, _)
C18_Concat(frames, n) ==
    IF n > Len(frames) THEN << >>
    ELSE FrameChunks(n, frames[n].big) \o C18_Concat(frames, n + 1)

C18_NoInterleaving ==
    LET all == C18_Concat(lock_order, 1)
        before == IF lock_order = << >> THEN << >>
                  ELSE C18_Concat(SubSeq(lock_order, 1, Len(lock_order) - 1), 1)
    IN  /\ Len(stream_out) <= Len(all)
        /\ stream_out = SubSeq(all, 1, Len(stream_out))
        /\ Len(stream_out) >= Len(before)
        /\ outgoing_mutex = NoWriter => stream_out = all
        /\ \A w1, w2 \in Writers :
              (w1 # w2 /\ writer[w1].pc # "idle") => writer[w2].pc = "idle"

\* Two senders wrote three frames, a large one between two small ones; the
\* third is whole on the stream after the first two.
C18_Witness ==
    /\ Len(lock_order) = 3
    /\ lock_order[1].w = 1 /\ lock_order[2].w = 2 /\ lock_order[3].w = 1
    /\ lock_order[2].big /\ ~lock_order[1].big
    /\ Len(stream_out) = 7
    /\ stream_out[7] = Chunk(3, "payload")
    /\ outgoing_mutex = NoWriter

----------------------------------------------------------------------------
\* Storage of a batch (SpecWorker).

\* C21: commit of a successful batch. The step in which the worker handles a
\* ContractCallBatch and sends Ok invokes commit once, with local_only equal to
\* the negation of commit_storage: with commit_storage the writes of the batch are
\* in the durable backend afterwards, without it the durable backend is as it was
\* and the writes are local only; and no batch is ever committed twice.
C21_Inv ==
    \A i, j \in DOMAIN commit_log : commit_log[i].id = commit_log[j].id => i = j

C21_Step ==
    (command_queue # << >> /\ handled' # handled) =>
        LET c == Head(command_queue)
        IN  (c.type = "ContractCallBatch" /\ results'[c.id].ok) =>
                /\ Len(commit_log') = Len(commit_log) + 1
                /\ SubSeq(commit_log', 1, Len(commit_log)) = commit_log
                /\ commit_log'[Len(commit_log')].id = c.id
                /\ commit_log'[Len(commit_log')].local_only = ~c.commit_storage
                /\ batch_writes(c.calls) \subseteq storage'.local
                /\ IF c.commit_storage
                      THEN batch_writes(c.calls) \subseteq storage'.durable
                      ELSE storage'.durable = storage.durable

C21_CommitOnSuccess == []C21_Inv /\ [][C21_Step]_vars

\* A batch writing a was committed durably, then a batch writing a and b was
\* committed with local_only: b is local and not durable.
C21_Witness ==
    /\ Len(commit_log) = 2
    /\ ~commit_log[1].local_only /\ commit_log[2].local_only
    /\ results[1].ok /\ results[2].ok
    /\ storage = [local |-> {"a", "b"}, durable |-> {"a"}]

----------------------------------------------------------------------------
\* Storage backends: any order of inserts and gets on a DummyStorageBackend and
\* of inserts and commits on a BatchStorageBackend that wraps it.

SpecStore == Init /\ [][StoreNext]_vars

\* C23: idempotent commit. A commit of a BatchStorage whose buffer was already
\* committed leaves the key-to-value map of the backend as it was, and after
\* any commit every buffered value is stored under its own key.
C23_Inv ==
    batch_storage.commits >= 1 =>
        \A v \in batch_storage.buffer :
            /\ hash_storage_key(v) \in DOMAIN dummy_storage
            /\ dummy_storage[hash_storage_key(v)] = v

C23_Step ==
    (batch_storage.commits >= 1 /\ batch_storage'.commits = batch_storage.commits + 1)
        => dummy_storage' = dummy_storage

C23_IdempotentCommit == []C23_Inv /\ [][C23_Step]_vars

\* A buffer of two values has been committed twice.
C23_Witness ==
    /\ batch_storage = [buffer |-> {<<1>>, <<2>>}, commits |-> 2]
    /\ DOMAIN dummy_storage = {hash_storage_key(<<1>>), hash_storage_key(<<2>>)}
    /\ store_ret.op = "commit"

\* C24: content-addressed storage. Every entry of the backend is stored under
\* hash_storage_key of its value; the key of a value is in the backend exactly
\* when an insert of that value has completed, and then holds that value; and a
\* get of the key of v has failed if v was not inserted and returned v if it was.
C24_ContentAddressed ==
    /\ \A k \in DOMAIN dummy_storage : k = hash_storage_key(dummy_storage[k])
    /\ \A v \in StorageValues :
          /\ hash_storage_key(v) \in DOMAIN dummy_storage <=> v \in inserted
          /\ v \in inserted => dummy_storage[hash_storage_key(v)] = v
          /\ (store_ret.op = "get" /\ store_ret.key = hash_storage_key(v)) =>
                IF v \in inserted
                    THEN store_ret.result.ok /\ store_ret.result.value = v
                    ELSE ~store_ret.result.ok

\* Two values are in the backend and a get of the key of one of them returned it.
C24_Witness ==
    /\ inserted = {<<1>>, <<1, 2>>}
    /\ store_ret.op = "get" /\ store_ret.key = hash_storage_key(<<1, 2>>)
    /\ store_ret.result.ok /\ store_ret.result.value = <<1, 2>>

----------------------------------------------------------------------------
\* Typed host requests, one after the other, against a host that answers with
\* any body or not at all.

SpecTyped == Init /\ [][TypedNext]_vars

\* C25: typed host requests. A method that has returned gave a value only if the
\* reply was of the response variant it expects (HostStorageSyncSerializedResponse
\* for get_subtree, get_path and get_node, HostLocalStorageGetResponse for get,
\* HostLocalStorageSetResponse for insert); for a reply of any other variant but
\* Error it returned InvalidResponse, for an Error reply the error of the reply;
\* and every call has passed exactly one request, its own, to make_request.
C25_Expected(method) ==
    CASE method \in {"get_subtree", "get_path", "get_node"} ->
             "HostStorageSyncSerializedResponse"
      [] method = "get" -> "HostLocalStorageGetResponse"
      [] method = "insert" -> "HostLocalStorageSetResponse"

C25_TypedHostRequest ==
    /\ Len(host_requests) = typed.calls
    /\ typed.calls > 0 =>
          host_requests[typed.calls].kind =
              CASE typed.method = "get_subtree" -> "HostStorageSyncGetSubtreeRequest"
                [] typed.method = "get_path" -> "HostStorageSyncGetPathRequest"
                [] typed.method = "get_node" -> "HostStorageSyncGetNodeRequest"
                [] typed.method = "get" -> "HostLocalStorageGetRequest"
                [] typed.method = "insert" -> "HostLocalStorageSetRequest"
    /\ (typed.pc = "idle" /\ typed.calls > 0) =>
          /\ typed.result.ok =>
                typed.delivered /\ typed.reply.kind = C25_Expected(typed.method)
          /\ (/\ typed.delivered
              /\ typed.reply.kind \notin {C25_Expected(typed.method), "Error"}) =>
                    ~typed.result.ok /\ typed.result.value = "invalid response"
          /\ (typed.delivered /\ typed.reply.kind = "Error") =>
                ~typed.result.ok /\ typed.result.value = typed.reply.arg

\* get_node was answered with the reply to a local storage get and returned
\* InvalidResponse, after an insert that was answered as expected.
C25_Witness ==
    /\ typed.pc = "idle" /\ typed.calls = 2 /\ typed.method = "get_node"
    /\ typed.delivered /\ typed.reply.kind = "HostLocalStorageGetResponse"
    /\ ~typed.result.ok /\ typed.result.value = "invalid response"
    /\ host_requests[1].kind = "HostLocalStorageSetRequest"

----------------------------------------------------------------------------
\* The committee follower at the end of its stream (SpecMgr).

\* C26: the end of the committee stream and every error that ends the follower
\* are fatal. Once the stream has ended, or get_node or the closure has failed,
\* the process has exited; and after the exit no leader is installed, no client
\* is created and the follower takes no further committee.
C26_Inv ==
    follower.last \in {"stream_end", "failed", "missing_leader"} => exited

C26_Step ==
    exited =>
        /\ exited'
        /\ leader' = leader
        /\ client_node' = client_node
        /\ follower' = follower
        /\ n_committees' = n_committees

C26_StreamEndIsFatal == []C26_Inv /\ [][C26_Step]_vars

\* The stream ended after a second leader had replaced the first.
C26_Witness ==
    /\ exited
    /\ follower.last = "stream_end"
    /\ leader = 2

----------------------------------------------------------------------------
\* PrometheusMetricCollector: threads that call collect concurrently.

SpecProm == Init /\ [][PromNext]_vars

\* C27: collect under concurrency. At any time at most one Prometheus metric has
\* been created and registered for a name, and it is the one the map holds for
\* the name; and once every collect call has returned, the counter of a name
\* holds the sum of all the increments passed to collect for it by all threads
\* (a name for which a value was collected has its metric).
C27_Inv ==
    /\ \A i, j \in DOMAIN registry : registry[i].name = registry[j].name => i = j
    /\ \A name \in DOMAIN metrics.map : registry[metrics.map[name]].name = name
    /\ \A i \in DOMAIN registry : registry[i].name \in DOMAIN metrics.map
    /\ Cardinality(metrics.writers) <= 1
    /\ (\A t \in Threads : thr[t].pc = "idle") =>
          \A name \in MetricNames :
              IF name \in DOMAIN metrics.map
                  THEN registry[metrics.map[name]].value = requested[name]
                  ELSE requested[name] = 0

C27_CollectIsThreadSafe == []C27_Inv

\* Both threads found the counter missing under the read lock; one created it
\* under the write lock, the other found it there on its second look; after
\* the increment of 10 by one thread and of 1 by the other the counter is at 11.
C27_Witness ==
    /\ \A t \in Threads : thr[t].pc = "idle" /\ thr[t].n = 1
    /\ \E t, u \in Threads :
          thr[t].path = "write_created" /\ thr[u].path = "write_found"
    /\ Len(registry) = 1
    /\ registry[1] = [name |-> "my_counter", kind |-> "Counter", value |-> 11]

----------------------------------------------------------------------------
\* A Node converted into an api::Node and back.

SpecNode == Init /\ [][NodeNext]_vars

\* C29 (as claimed): Node round trip. Once a Node has been converted into an
\* api::Node and that back with Node::try_from, the conversion has succeeded and
\* the Node it gave equals the original in every field: id, eth_address,
\* entity_id, expiration, addresses, certificate, registration_time, runtimes.
C29_NodeRoundTrip ==
    conv.pc = "done" =>
        /\ conv.converted.ok
        /\ \A f \in {"id", "eth_address", "entity_id", "expiration", "addresses",
                     "certificate", "registration_time", "runtimes"} :
              conv.converted.value[f] = conv.original[f]

----------------------------------------------------------------------------
\* main: from the command line to the configuration of the worker.

SpecConfig == Init /\ [][ConfigNext]_vars

\* C30 (as claimed): forwarded-rpc-timeout. Once main has built the worker
\* configuration, forwarded_rpc_timeout is Some(N seconds) when the option
\* forwarded-rpc-timeout was given with N, and None when it was not given.
C30_ForwardedRpcTimeout ==
    config.pc = "configured" =>
        IF "forwarded-rpc-timeout" \in DOMAIN config.matches
            THEN config.worker.forwarded_rpc_timeout =
                    <<[secs |-> value_t(config.matches, "forwarded-rpc-timeout"),
                       nanos |-> 0]>>
            ELSE config.worker.forwarded_rpc_timeout = << >>

----------------------------------------------------------------------------
\* SelectAll: streams are pushed, become ready and are polled, in any order.

SpecSelect == Init /\ [][SelectNext]_vars

\* The items poll has returned from stream s, in the order of their return.
RECURSIVE C28_Yielded(_, _)
C28_Yielded(s, n) ==
    IF n = 0 THEN << >>
    ELSE IF yielded[n].from = s
        THEN Append(C28_Yielded(s, n - 1), yielded[n].item)
        ELSE C28_Yielded(s, n - 1)

\* C28: SelectAll yields what its streams yield. For every pushed stream, the
\* items poll has returned from it are, in order and each once, the items the
\* stream has handed out so far: together with what a stream of the set has
\* still to yield they are all the stream yields. A stream is no longer in the
\* set only when it has ended with all its items returned, or when it yielded an
\* error, which poll returned in place of an item. poll has returned Ready(None)
\* only with no stream in the set, and a poll of the empty set returns it.
C28_Inv ==
    /\ \A s \in DOMAIN pushed :
          LET y == C28_Yielded(s, Len(yielded))
          IN  /\ Len(y) <= Len(pushed[s])
              /\ y = SubSeq(pushed[s], 1, Len(y))
              /\ \A i \in DOMAIN y : y[i] # "err"
              /\ s \in DOMAIN select_all.inner =>
                    pushed[s] = y \o select_all.inner[s]
              /\ s \notin DOMAIN select_all.inner =>
                    \/ y = pushed[s]
                    \/ pushed[s][Len(y) + 1] = "err"
    /\ DOMAIN select_all.inner \subseteq DOMAIN pushed
    /\ select_all.last = "Ready(None)" => DOMAIN select_all.inner = {}

C28_Step ==
    (DOMAIN select_all.inner = {} /\ pushed' = pushed /\ select_all' # select_all)
        => select_all'.last = "Ready(None)"

C31_SendResponseNeverFails ==
    codec.op = "send_response" =>
        /\ codec.enc.ok
        /\ from_slice(codec.enc.frame.payload).message
               = FullMessage(codec.message.id, "Response", codec.message.body, << >>)

\* C31 as amended: on a live stream send_response fails exactly when the encoded
\* message is longer than MAX_MESSAGE_SIZE, with MessageTooLarge and nothing
\* written; otherwise it returns Ok and writes one frame, the length prefix and
\* the encoding of a Response that carries the id, the body and no span context.
C31_SendResponse ==
    codec.op = "send_response" =>
        LET id == codec.message.id
            body == codec.message.body
            len == cbor_len(FullMessage(id, "Response", body, << >>))
        IN  IF len <= MAX_MESSAGE_SIZE
                THEN /\ codec.enc.ok
                     /\ codec.enc.written = 4 + len
                     /\ from_slice(codec.enc.frame.payload).ok
                     /\ from_slice(codec.enc.frame.payload).message
                            = FullMessage(id, "Response", body, << >>)
                ELSE /\ ~codec.enc.ok
                     /\ codec.enc.error = "message too large"
                     /\ codec.enc.written = 0

\* A response that fits has been sent and read back; its id has a two-byte head.
C31_Witness ==
    /\ codec.op = "send_response"
    /\ codec.pc = "decoded"
    /\ codec.enc.ok
    /\ codec.message.id = 256
    /\ codec.message.body = ErrorBody("host error")
    /\ codec.dec.message.message_type = "Response"

----------------------------------------------------------------------------
\* Block headers: headers are built on one another and compared.

SpecHeader == Init /\ [][HeaderNext]_vars

\* C32: is_parent_of(child) is true exactly when child.previous_hash is the
\* encoded hash of self; for a child built on a parent, parent.is_parent_of(child)
\* is true and child.is_parent_of(parent) is false.
C32_IsParentOf ==
    parent_check.called =>
        (parent_check.result
            <=> parent_check.child.previous_hash = get_encoded_hash(parent_check.self))

----------------------------------------------------------------------------
\* Further properties of the multiplexer (SpecMux).

\* C33: the id counter never wraps silently. No allocation follows the allocation
\* of the largest id (the wrap is fatal), so that no id, and least of all the id
\* of a request that is still pending, is handed out a second time.
C33_WrapIsFatal ==
    /\ \A i \in DOMAIN allocated : allocated[i] = IdModulus - 1 => i = Len(allocated)
    /\ \A i, j \in DOMAIN allocated : i # j => allocated[i] # allocated[j]
    /\ \A k \in Calls :
          Pending(k) => Cardinality({i \in DOMAIN allocated : allocated[i] = req_id[k]}) = 1

----------------------------------------------------------------------------
\* The manager and the committees of all runtimes and kinds.

SpecWatch == MgrInit /\ [][WatchNext]_vars

\* C34: only a committee of the manager's runtime and of kind Compute can change
\* the manager. Taking a committee of another runtime or kind leaves the leader
\* slot, the one-shot and its sender as they are, creates no client, shuts none
\* down, starts no get_node and does not end the follower, whatever leader the
\* committee names.
C34_Step ==
    \A committee \in WatchedCommittees :
        ((committee.runtime # "this" \/ committee.kind # "Compute")
            /\ committee_update(committee)) =>
                /\ UNCHANGED <<leader, future_leader, leader_notify, client_node,
                               client_shutdown, exited, mcall>>
                /\ follower'.pc = "idle"
                /\ follower'.new_leader = follower.new_leader

C34_OnlyOwnComputeCommittees == [][C34_Step]_vars

\* With n1 installed as the leader, a committee of another runtime or kind that
\* names n2 as its leader has been taken.
C34_Witness ==
    /\ leader = 1
    /\ client_node = <<"n1">>
    /\ client_shutdown = <<0>>
    /\ follower.last = "filtered"
    /\ follower.skipped = "n2"
    /\ follower.pc = "idle"
    /\ ~exited

\* C35: the leader slot and the one-shot. The sender is in leader_notify exactly
\* while no leader has been installed, and the one-shot holds a value exactly
\* when the sender is gone; take().unwrap() never panics; an installed leader is
\* never followed by an empty slot, a taken sender never comes back, and the
\* one-shot keeps the first leader for good.
C35_Inv ==
    /\ leader_notify <=> leader = NoClient
    /\ leader_notify <=> future_leader = NoClient
    /\ follower.last # "panicked"
    /\ future_leader # NoClient => future_leader = 1

C35_Step ==
    /\ leader # NoClient => leader' # NoClient
    /\ ~leader_notify => ~leader_notify'
    /\ future_leader # NoClient => future_leader' = future_leader

C35_LeaderSetOnce == []C35_Inv /\ [][C35_Step]_vars

\* A second leader has replaced the first: the sender was taken once, the
\* one-shot still holds the first leader.
C35_Witness ==
    /\ leader = 2
    /\ client_node = <<"n1", "n2">>
    /\ future_leader = 1
    /\ ~leader_notify
    /\ follower.last = "installed"

\* C36: a committee of this runtime and of kind Compute whose leader has the
\* node id of the installed leader changes nothing: the slot holds the same
\* Leader, no client is created or shut down, no get_node is started, the calls
\* in flight stay as they are and the follower goes on.
C36_Step ==
    \A committee \in WatchedCommittees :
        (/\ committee.runtime = "this"
         /\ committee.kind = "Compute"
         /\ leader # NoClient
         /\ first_leader(committee.members) = client_node[leader]
         /\ committee_update(committee)) =>
                /\ UNCHANGED <<leader, future_leader, leader_notify, client_node,
                               client_shutdown, exited, mcall>>
                /\ follower'.pc = "idle"
                /\ follower'.last = "same_leader"

C36_SameLeaderIsNoOp == [][C36_Step]_vars

\* The committee named the installed leader again while a call was in flight on
\* its client.
C36_Witness ==
    /\ follower.last = "same_leader"
    /\ leader = 1
    /\ client_node = <<"n1">>
    /\ client_shutdown = <<0>>
    /\ \E c \in MCalls : mcall[c].pc = "inflight" /\ mcall[c].target = 1

\* The id of call k was registered again by a later call (the wrap of C33).
C37_IdTakenAgain(k) ==
    \E j \in Calls \ {k} : req_id[j] = req_id[k] /\ pc[j] \notin {"start", "alloc"}

\* C37: registration precedes the write. A call whose request frame has been
\* written has its channel in pending_out_requests under its id, until a Response
\* with that id has been handled (the body is then in its channel) or a later call
\* has registered the same id. A Response to a request that was written and is
\* yet unanswered therefore finds the channel of its call and is not dropped as
\* an unknown request.
C37_RegisteredBeforeSent ==
    \A k \in Calls :
        pc[k] = "waiting" =>
            \/ /\ req_id[k] \in DOMAIN pending_out_requests
               /\ pending_out_requests[req_id[k]] = k
            \/ chan[k] # NoMsg
            \/ C37_IdTakenAgain(k)

\* Two requests are on the wire; the Response to the second has been handled and
\* delivered before the first was answered, whose channel is still registered.
C37_Witness ==
    /\ pc[1] = "waiting" /\ pc[2] = "waiting" /\ pc[3] = "start"
    /\ Len(wire) = 2
    /\ last_handled.outcome = "delivered"
    /\ last_handled.to = 2
    /\ chan[2] # NoMsg
    /\ chan[1] = NoMsg
    /\ pending_out_requests[req_id[1]] = 1

----------------------------------------------------------------------------
\* Further properties of the request side (SpecReq).

\* C38: the reader answers a Request at most once. Handling a Request with id i
\* writes nothing but, at most, one frame, of type Response and with id i: exactly
\* one, with the body handle_request returned or with its error as a Body::Error,
\* when the request was not handed to the Dispatcher; none when it was, the
\* request then being at the end of the Dispatcher queue.
C38_Step ==
    LET m == last_handled'.frame
    IN  (n_in' = n_in + 1 /\ m.message_type = "Request") =>
            LET r == handle_request(m.body)
                sent == SubSeq(wire', Len(wire) + 1, Len(wire'))
            IN  /\ Len(wire') >= Len(wire)
                /\ SubSeq(wire', 1, Len(wire)) = wire
                /\ Len(sent) <= 1
                /\ \A n \in DOMAIN sent :
                      sent[n].id = m.id /\ sent[n].message_type = "Response"
                /\ r.queued =>
                      /\ sent = << >>
                      /\ dispatcher_queue'
                            = Append(dispatcher_queue, [id |-> m.id, body |-> m.body])
                /\ ~r.queued =>
                      /\ Len(sent) = 1
                      /\ sent[1].body = r.body
                      /\ r.tag = "Err" => sent[1].body.kind = "Error"
                      /\ dispatcher_queue' = dispatcher_queue

C38_OneResponsePerRequest == [][C38_Step]_vars

\* A request was queued to the Dispatcher without a response; the next one, with
\* another id, was refused and answered with one Error body under its id.
C38_Witness ==
    /\ n_in = 2
    /\ Len(dispatcher_queue) = 1
    /\ dispatcher_queue[1].id = 0
    /\ Len(wire) = 1
    /\ wire[1].id = 1
    /\ wire[1].message_type = "Response"
    /\ wire[1].body.kind = "Error"
    /\ last_handled.outcome = "responded"

----------------------------------------------------------------------------
\* The worker under callers that drop their receivers.

SpecWorkerDrop == WorkerSpecInit /\ [][WorkerDropNext]_vars

\* C39: every command is answered and the loop goes on. The worker loop never
\* stops while commands can be sent, whatever the commands before did and whether
\* or not their callers still hold their receivers; every command the worker has
\* taken has had its one result sent; and a result is never replaced by another.
C39_Inv ==
    /\ worker_running
    /\ \A id \in DOMAIN results :
          (id \in {handled[n] : n \in DOMAIN handled} /\ receivers[id])
              => (results[id].ok \/ results[id].value # "none")

C39_Step ==
    \A id \in DOMAIN results :
        (results[id].ok \/ results[id].value # "none") => results'[id] = results[id]

C39_EveryCommandAnswered == []C39_Inv /\ [][C39_Step]_vars

\* C40: a well-formed KeepAlive message has no effect. Handling it writes no
\* frame, queues nothing to the Dispatcher, leaves pending_out_requests and every
\* channel as they are, also when a request with the id of the KeepAlive is
\* pending, binds no AVR, ends no call and leaves the reader loop running.
C40_Step ==
    LET m == last_handled'.frame
    IN  (n_in' = n_in + 1 /\ m.message_type = "KeepAlive") =>
            /\ UNCHANGED <<wire, dispatcher_queue, pending_out_requests, chan, rak_avr,
                           pc, ret, req_id, last_request_id>>
            /\ reader_running'
            /\ stream_ok'

C40_KeepAliveHasNoEffect == [][C40_Step]_vars

\* A KeepAlive with id 0 was handled while the request with id 0 was waiting for
\* its response: the request is still registered and unanswered.
C40_Witness ==
    /\ last_handled.frame.message_type = "KeepAlive"
    /\ last_handled.outcome = "malformed"
    /\ pc[1] = "waiting"
    /\ req_id[1] = last_handled.frame.id
    /\ pending_out_requests[req_id[1]] = 1
    /\ chan[1] = NoMsg
    /\ reader_running

============================================================================
